---------------------------- MODULE Spec2Model ----------------------------
(***************************************************************************)
(* A model of the semantic core of the ispc front end: the lexical symbol  *)
(* table (sym.cpp, kept in src/tests/half.ispc), the implicit type         *)
(* conversion engine (lDoTypeConv in expr.cpp) and the overload resolver   *)
(* (FunctionSymbolExpr::ResolveOverloads in expr.cpp).                     *)
(***************************************************************************)
EXTENDS Integers, Sequences, FiniteSets, TLC

VARIABLES
    variables,   \* SymbolTable::variables : stack of name -> Symbol* maps
    functions,   \* SymbolTable::functions : stack of name -> vector<Symbol*>
    types,       \* SymbolTable::types     : stack of name -> const Type* maps
    op,          \* the operation that ran last
    arg,         \* its argument
    ret,         \* its return value
    nErrors,     \* number of Error() calls it made
    nWarnings,   \* number of Warning() calls it made
    cExpr,       \* the expression handed to the conversion
    cTo,         \* the type to convert it to
    cCall,       \* the conversion entry point that was called
    cResult,     \* what the call gave
    name,                \* FunctionSymbolExpr::name, as its characters
    candidateFunctions,  \* FunctionSymbolExpr::candidateFunctions
    matchingFunc,        \* FunctionSymbolExpr::matchingFunc
    triedToResolve,      \* FunctionSymbolExpr::triedToResolve
    argTypes,            \* the argTypes ResolveOverloads is called with
    argCouldBeNULL,      \* its argCouldBeNULL; << >> stands for a NULL pointer
    tier,                \* where ResolveOverloads is: the next predicate to try
    oRet,                \* what ResolveOverloads returned
    oErrors,             \* the Error() calls it made
    tried,               \* the calls of tryResolve it made, in order
    pCallType,           \* the argument type a predicate is applied to
    pFuncArgType,        \* the parameter type it is applied to
    pPred,               \* the predicate applied, by its place in ResolveOverloads
    pCost,               \* the cost it returned, and whether it stopped the compiler
    tcNode,              \* the expression node TypeCheck() is called on
    tcRet,               \* what TypeCheck() returned
    tcErrors,            \* the Error() calls made during it
    gtExpr,              \* the expression GetType() is called on
    gtRet,               \* the type it returned
    optNode,             \* the expression as the parser built it
    optFastMath,         \* g->opt.fastMath
    optPhase,            \* the pass the expression has reached
    optChecked,          \* the expression Optimize() is called on, its operands optimized
    optRet,              \* what Optimize() returned
    optErrors,           \* the Error() calls made by the passes
    optWarnings,         \* the Warning() calls made by them
    cmOp,                \* the near-miss query made last, "idle" before any
    cmStr,               \* the string it was given
    cmRet                \* the names it returned

symVars == <<variables, functions, types, op, arg, ret, nErrors, nWarnings>>

convVars == <<cExpr, cTo, cCall, cResult>>

ovVars == <<name, candidateFunctions, matchingFunc, triedToResolve, argTypes,
           argCouldBeNULL, tier, oRet, oErrors, tried>>

\* What the symbol table operations leave alone, what a conversion does, and
\* what the overload resolution does.
predVars == <<pCallType, pFuncArgType, pPred, pCost>>

tcVars == <<tcNode, tcRet, tcErrors>>

gtVars == <<gtExpr, gtRet>>

optVars == <<optNode, optFastMath, optPhase, optChecked, optRet, optErrors, optWarnings>>

cmVars == <<cmOp, cmStr, cmRet>>

notSymVars == <<convVars, ovVars, predVars, tcVars, gtVars, optVars, cmVars>>

notConvVars == <<symVars, ovVars, predVars, tcVars, gtVars, optVars, cmVars>>

notOvVars == <<symVars, convVars, predVars, tcVars, gtVars, optVars, cmVars>>

notPredVars == <<symVars, convVars, ovVars, tcVars, gtVars, optVars, cmVars>>

vars == <<symVars, convVars, ovVars, predVars, tcVars, gtVars, optVars, cmVars>>

---------------------------------------------------------------------------
(* Bounds of the model *)

\* the deepest nesting of scopes PushScope may reach
MaxDepth == 2

---------------------------------------------------------------------------
(* Types.  type.cpp is not part of the sources at hand: the operators of   *)
(* this section follow section 3 and 4.1 of the specification.             *)

NullType == [kind |-> "NULL"]

AtomicT(b, u, c) == [kind |-> "atomic", basic |-> b, uniform |-> u, const |-> c]

EnumT(n, u, c) == [kind |-> "enum", name |-> n, uniform |-> u, const |-> c]

StructT(n, u, c) == [kind |-> "struct", name |-> n, uniform |-> u, const |-> c]

PointerT(b, u, c) == [kind |-> "pointer", base |-> b, uniform |-> u, const |-> c]

ReferenceT(t) == [kind |-> "reference", target |-> t]

ArrayT(e, n) == [kind |-> "array", elt |-> e, count |-> n]

VectorT(e, n) == [kind |-> "vector", elt |-> e, count |-> n]

FunctionT(r, ps) == [kind |-> "function", ret |-> r, params |-> ps]

\* AtomicType::Void, one object
Void == AtomicT("void", TRUE, FALSE)

\* PointerType::Void, the type of a null pointer literal
PointerVoid == PointerT(Void, TRUE, TRUE)

\* Type::Equal: structural equality including const and variability.
Equal(a, b) == a # NullType /\ b # NullType /\ a = b

\* dynamic_cast<const K *>(t) != NULL
IsKind(t, k) == t.kind = k

\* Type::IsUniformType: a reference is always uniform, an array or a short
\* vector is as its elements are, a pointer as the pointer itself is.
RECURSIVE IsUniformType(_)
IsUniformType(t) ==
    CASE t.kind \in {"atomic", "enum", "struct", "pointer"} -> t.uniform
      [] t.kind \in {"array", "vector"} -> IsUniformType(t.elt)
      [] OTHER -> TRUE

\* Type::IsVaryingType
IsVaryingType(t) == ~IsUniformType(t)

\* Type::IsConstType
RECURSIVE IsConstType(_)
IsConstType(t) ==
    CASE t.kind \in {"atomic", "enum", "struct", "pointer"} -> t.const
      [] t.kind \in {"array", "vector"} -> IsConstType(t.elt)
      [] t.kind = "reference" -> IsConstType(t.target)
      [] OTHER -> FALSE

\* Type::GetAsConstType and GetAsNonConstType: as_const and as_mutable, which
\* recurse into composite shapes; void has one form only.
RECURSIVE WithConst(_, _)
WithConst(t, c) ==
    CASE t = Void -> t
      [] t.kind \in {"atomic", "enum", "struct", "pointer"} -> [t EXCEPT !.const = c]
      [] t.kind \in {"array", "vector"} -> [t EXCEPT !.elt = WithConst(t.elt, c)]
      [] t.kind = "reference" -> [t EXCEPT !.target = WithConst(t.target, c)]
      [] OTHER -> t

GetAsConstType(t) == WithConst(t, TRUE)

GetAsNonConstType(t) == WithConst(t, FALSE)

\* Type::GetAsUniformType and GetAsVaryingType: as_uniform and as_varying.
RECURSIVE WithUniform(_, _)
WithUniform(t, u) ==
    CASE t = Void -> t
      [] t.kind \in {"atomic", "enum", "struct", "pointer"} -> [t EXCEPT !.uniform = u]
      [] t.kind \in {"array", "vector"} -> [t EXCEPT !.elt = WithUniform(t.elt, u)]
      [] OTHER -> t

GetAsUniformType(t) == WithUniform(t, TRUE)

GetAsVaryingType(t) == WithUniform(t, FALSE)

\* Type::EqualIgnoringConst
EqualIgnoringConst(a, b) == Equal(GetAsNonConstType(a), GetAsNonConstType(b))

\* Type::GetReferenceTarget: the target of a reference, any other type itself.
GetReferenceTarget(t) == IF t.kind = "reference" THEN t.target ELSE t

\* PointerType::GetBaseType
GetBaseType(t) == t.base

\* ArrayType::GetElementType, VectorType::GetElementType
GetElementType(t) == t.elt

\* ArrayType::GetElementCount, VectorType::GetElementCount
GetElementCount(t) == t.count

\* Type::IsBoolType
IsBoolType(t) == t.kind = "atomic" /\ t.basic = "bool"

\* Type::IsIntType
IsIntType(t) ==
    /\ t.kind = "atomic"
    /\ t.basic \in {"int8", "uint8", "int16", "uint16", "int32", "uint32", "int64", "uint64"}

\* PointerType::IsVoidPointer
IsVoidPointer(t) == t.kind = "pointer" /\ t.base = Void

---------------------------------------------------------------------------
(* Symbol table (sym.cpp) *)

VarNames == {"x", "y"}

FuncNames == {"f"}

TypeNames == {"T"}

NullSym == [name |-> "NULL", id |-> 0, type |-> NullType]

\* Symbol::Symbol: a symbol is an object; id stands for its address.
Symbol(n, i, t) == [name |-> n, id |-> i, type |-> t]

\* Two distinct symbols named x, so that one can shadow the other, and one named y.
VarSymbols == { Symbol("x", 1, AtomicT("int32", TRUE, FALSE)),
                Symbol("x", 2, AtomicT("int32", TRUE, FALSE)),
                Symbol("y", 1, AtomicT("int32", TRUE, FALSE)) }

FuncTypeInt == FunctionT(AtomicT("void", TRUE, FALSE), <<AtomicT("int32", TRUE, FALSE)>>)

FuncTypeFloat == FunctionT(AtomicT("void", TRUE, FALSE), <<AtomicT("float", TRUE, FALSE)>>)

\* Two distinct symbols f(int), whose types are Equal, and one f(float).
FuncSymbols == { Symbol("f", 1, FuncTypeInt), Symbol("f", 2, FuncTypeInt),
                 Symbol("f", 3, FuncTypeFloat) }

NamedTypes == { AtomicT("int32", TRUE, FALSE) }

EmptyVarMap == [n \in VarNames |-> NullSym]

EmptyFuncMap == [n \in FuncNames |-> << >>]

EmptyTypeMap == [n \in TypeNames |-> NullType]

\* The index of the innermost scope of stack st that satisfies Has, 0 if none:
\* the loops "for (i = size - 1; i >= 0; --i)" of sym.cpp.
RECURSIVE InnermostFrom(_, _, _)
InnermostFrom(st, n, i) ==
    IF i = 0 THEN 0
    ELSE IF st[i][n] # NullSym THEN i
    ELSE InnermostFrom(st, n, i - 1)

\* The index of the outermost scope of st that binds n, 0 if none.
RECURSIVE OutermostFrom(_, _, _)
OutermostFrom(st, n, i) ==
    IF i > Len(st) THEN 0
    ELSE IF st[i][n] # NullSym THEN i
    ELSE OutermostFrom(st, n, i + 1)

\* LookupVariable with the scopes walked outermost-first.
LookupVariableOutermostFirst(vs, n) ==
    LET i == OutermostFrom(vs, n, 1)
    IN  IF i = 0 THEN NullSym ELSE vs[i][n]

\* SymbolTable::LookupVariable
LookupVariableIn(vs, n) ==
    LET i == InnermostFrom(vs, n, Len(vs))
    IN  IF i = 0 THEN NullSym ELSE vs[i][n]

LookupVariable(n) == LookupVariableIn(variables, n)

\* AddVariable with a name bound in any scope treated as a redeclaration.
AddVariableNoShadow(vs, sym) ==
    LET i == InnermostFrom(vs, sym.name, Len(vs))
    IN  IF i # 0
        THEN [ret |-> FALSE, variables |-> vs, errors |-> 1, warnings |-> 0]
        ELSE [ret |-> TRUE, variables |-> [vs EXCEPT ![Len(vs)][sym.name] = sym],
              errors |-> 0, warnings |-> 0]

\* SymbolTable::AddVariable: the value returned, the new stack and the
\* diagnostics issued.
AddVariableResult(vs, sym) ==
    LET i == InnermostFrom(vs, sym.name, Len(vs))
        bound == [vs EXCEPT ![Len(vs)][sym.name] = sym]
    IN  IF i = Len(vs)
        THEN [ret |-> FALSE, variables |-> vs, errors |-> 1, warnings |-> 0]
        ELSE IF i # 0
        THEN [ret |-> TRUE, variables |-> bound, errors |-> 0, warnings |-> 1]
        ELSE [ret |-> TRUE, variables |-> bound, errors |-> 0, warnings |-> 0]

\* The search of an overload list that looks at its first entry only.
FirstEqualHeadOnly(fs, t, j) ==
    IF Len(fs) > 0 /\ Equal(fs[1].type, t) THEN fs[1] ELSE NullSym

\* The first symbol of the overload list fs whose type is Equal to t: the
\* inner loop of LookupFunction(name, type).
RECURSIVE FirstEqual(_, _, _)
FirstEqual(fs, t, j) ==
    IF j > Len(fs) THEN NullSym
    ELSE IF Equal(fs[j].type, t) THEN fs[j]
    ELSE FirstEqual(fs, t, j + 1)

\* SymbolTable::LookupFunction(name, type)
RECURSIVE LookupFunctionTypeFrom(_, _, _, _)
LookupFunctionTypeFrom(fns, n, t, i) ==
    IF i = 0 THEN NullSym
    ELSE LET s == FirstEqual(fns[i][n], t, 1)
         IN  IF s # NullSym THEN s
             ELSE LookupFunctionTypeFrom(fns, n, t, i - 1)

LookupFunctionType(fns, n, t) == LookupFunctionTypeFrom(fns, n, t, Len(fns))

\* SymbolTable::LookupFunction(name, matches): the symbols pushed on matches,
\* innermost scope first.
RECURSIVE LookupFunctionMatchesFrom(_, _, _)
LookupFunctionMatchesFrom(fns, n, i) ==
    IF i = 0 THEN << >>
    ELSE fns[i][n] \o LookupFunctionMatchesFrom(fns, n, i - 1)

LookupFunctionMatches(fns, n) == LookupFunctionMatchesFrom(fns, n, Len(fns))

\* AddFunction with the redefinition test made against the innermost scope only.
AddFunctionInnermostOnly(fns, sym) ==
    IF FirstEqual(fns[Len(fns)][sym.name], sym.type, 1) # NullSym
    THEN [ret |-> FALSE, functions |-> fns]
    ELSE [ret |-> TRUE,
          functions |-> [fns EXCEPT ![Len(fns)][sym.name] = Append(@, sym)]]

\* SymbolTable::AddFunction
AddFunctionResult(fns, sym) ==
    IF LookupFunctionType(fns, sym.name, sym.type) # NullSym
    THEN [ret |-> FALSE, functions |-> fns]
    ELSE [ret |-> TRUE,
          functions |-> [fns EXCEPT ![Len(fns)][sym.name] = Append(@, sym)]]

\* The index of the innermost scope that binds type name n, 0 if none.
RECURSIVE InnermostTypeFrom(_, _, _)
InnermostTypeFrom(ts, n, i) ==
    IF i = 0 THEN 0
    ELSE IF ts[i][n] # NullType THEN i
    ELSE InnermostTypeFrom(ts, n, i - 1)

\* SymbolTable::LookupType
LookupTypeIn(ts, n) ==
    LET i == InnermostTypeFrom(ts, n, Len(ts))
    IN  IF i = 0 THEN NullType ELSE ts[i][n]

\* SymbolTable::AddType
AddTypeResult(ts, n, t) ==
    LET i == InnermostTypeFrom(ts, n, Len(ts))
        bound == [ts EXCEPT ![Len(ts)][n] = t]
    IN  IF i = Len(ts)
        THEN [ret |-> FALSE, types |-> ts, errors |-> 1, warnings |-> 0]
        ELSE IF i # 0
        THEN [ret |-> TRUE, types |-> bound, errors |-> 0, warnings |-> 1]
        ELSE [ret |-> TRUE, types |-> bound, errors |-> 0, warnings |-> 0]

\* SymbolTable::SymbolTable: the constructor pushes the global scope.
SymInit ==
    /\ variables = <<EmptyVarMap>>
    /\ functions = <<EmptyFuncMap>>
    /\ types = <<EmptyTypeMap>>
    /\ op = "SymbolTable"
    /\ arg = NullSym
    /\ ret = TRUE
    /\ nErrors = 0
    /\ nWarnings = 0

\* PushScope that leaves the types stack alone.
PushScopeForgetTypes ==
    /\ Len(variables) < MaxDepth
    /\ variables' = Append(variables, EmptyVarMap)
    /\ functions' = Append(functions, EmptyFuncMap)
    /\ op' = "PushScope"
    /\ arg' = NullSym
    /\ ret' = TRUE
    /\ nErrors' = 0
    /\ nWarnings' = 0
    /\ UNCHANGED types
    /\ UNCHANGED notSymVars

\* SymbolTable::PushScope
PushScope ==
    /\ Len(variables) < MaxDepth
    /\ variables' = Append(variables, EmptyVarMap)
    /\ functions' = Append(functions, EmptyFuncMap)
    /\ types' = Append(types, EmptyTypeMap)
    /\ op' = "PushScope"
    /\ arg' = NullSym
    /\ ret' = TRUE
    /\ nErrors' = 0
    /\ nWarnings' = 0
    /\ UNCHANGED notSymVars

\* SymbolTable::PopScope: each Assert is a guard, a failed one aborts.
PopScope ==
    /\ Len(variables) > 1
    /\ Len(functions) > 1
    /\ Len(types) > 1
    /\ variables' = SubSeq(variables, 1, Len(variables) - 1)
    /\ functions' = SubSeq(functions, 1, Len(functions) - 1)
    /\ types' = SubSeq(types, 1, Len(types) - 1)
    /\ op' = "PopScope"
    /\ arg' = NullSym
    /\ ret' = TRUE
    /\ nErrors' = 0
    /\ nWarnings' = 0
    /\ UNCHANGED notSymVars

AddVariable ==
    \E sym \in VarSymbols :
        LET r == AddVariableResult(variables, sym)
        IN  /\ variables' = r.variables
            /\ op' = "AddVariable"
            /\ arg' = sym
            /\ ret' = r.ret
            /\ nErrors' = r.errors
            /\ nWarnings' = r.warnings
            /\ UNCHANGED <<functions, types, notSymVars>>

AddFunction ==
    \E sym \in FuncSymbols :
        LET r == AddFunctionResult(functions, sym)
        IN  /\ functions' = r.functions
            /\ op' = "AddFunction"
            /\ arg' = sym
            /\ ret' = r.ret
            /\ nErrors' = 0
            /\ nWarnings' = 0
            /\ UNCHANGED <<variables, types, notSymVars>>

AddType ==
    \E n \in TypeNames, t \in NamedTypes :
        LET r == AddTypeResult(types, n, t)
        IN  /\ types' = r.types
            /\ op' = "AddType"
            /\ arg' = Symbol(n, 0, t)
            /\ ret' = r.ret
            /\ nErrors' = r.errors
            /\ nWarnings' = r.warnings
            /\ UNCHANGED <<variables, functions, notSymVars>>

SymNext ==
    \/ PushScope
    \/ PopScope
    \/ AddVariable
    \/ AddFunction
    \/ AddType

---------------------------------------------------------------------------
(* Expressions, as far as type conversion looks at them (expr.cpp) *)

\* Expr * == NULL
NullExpr == [node |-> "NULL"]

\* An expression of type t that is no constant and no null pointer literal.
SymbolE(t) == [node |-> "symbol", type |-> t]

\* A ConstExpr of type t whose lanes are all zero.
ZeroConstE(t) == [node |-> "const", type |-> t]

\* NullPointerExpr
NullPointerE == [node |-> "null"]

\* TypeCastExpr::TypeCastExpr
TypeCastE(t, e) == [node |-> "typecast", type |-> t, expr |-> e]

\* DereferenceExpr
DereferenceE(e) == [node |-> "deref", expr |-> e]

\* ReferenceExpr
ReferenceE(e) == [node |-> "ref", expr |-> e]

\* Expr::GetType of each node: TypeCastExpr::GetType, NullPointerExpr::GetType,
\* DereferenceExpr::GetType, ReferenceExpr::GetType; a type-checked call of a
\* function carries its return type.
RECURSIVE GetType(_)
GetType(e) ==
    CASE e.node \in {"symbol", "const", "typecast", "call"} -> e.type
      [] e.node = "null" -> PointerVoid
      [] e.node = "deref" ->
            LET exprType == GetType(e.expr)
            IN  IF exprType = NullType THEN NullType
                ELSE IF IsKind(exprType, "reference") THEN GetReferenceTarget(exprType)
                ELSE IF IsUniformType(exprType) THEN GetBaseType(exprType)
                ELSE GetAsVaryingType(GetBaseType(exprType))
      [] e.node = "ref" ->
            LET type == GetType(e.expr)
            IN  IF type = NullType THEN NullType ELSE ReferenceT(type)
      [] OTHER -> NullType

\* lIsAllIntZeros: a ConstExpr of an integer type whose lanes are all zero
lIsAllIntZeros(e) ==
    LET type == GetType(e)
    IN  /\ type # NullType
        /\ IsIntType(type)
        /\ e.node = "const"
        /\ "vals" \in DOMAIN e => \A i \in 1..Len(e.vals) : e.vals[i] = <<0, 0>>

---------------------------------------------------------------------------
(* Implicit type conversion: lDoTypeConv (expr.cpp) *)

\* What a call of lDoTypeConv gives: the value returned, *expr afterwards, the
\* Error() and Warning() calls made, and whether an Assert failed (which
\* aborts the compiler).
ConvResult(okv, e, errs, warns, ab) ==
    [ok |-> okv, expr |-> e, errors |-> errs, warnings |-> warns, abort |-> ab]

\* "return true" with *expr left as it is
ConvTrue(e) == ConvResult(TRUE, e, << >>, << >>, FALSE)

\* "if (!failureOk) Error(...); return false"
ConvError(e, failureOk, msg) ==
    ConvResult(FALSE, e, IF failureOk THEN << >> ELSE <<msg>>, << >>, FALSE)

\* a failed Assert
ConvAbort(e) == ConvResult(FALSE, e, << >>, << >>, TRUE)

\* The order of AtomicType::BasicType, as the switch of
\* lMaybeIssuePrecisionWarning lists it.
BasicTypeOrder ==
    <<"void", "bool", "int8", "uint8", "int16", "uint16", "int32", "uint32",
      "float", "int64", "uint64", "double">>

BasicTypeRank(b) == CHOOSE i \in 1..Len(BasicTypeOrder) : BasicTypeOrder[i] = b

\* The condition under which lMaybeIssuePrecisionWarning warns. The function
\* is compiled out (#if 0) and nothing calls it.
lMaybeIssuePrecisionWarning(toAtomicType, fromAtomicType) ==
    /\ BasicTypeRank(toAtomicType.basic) < BasicTypeRank(fromAtomicType.basic)
    /\ toAtomicType.basic # "bool"
    /\ ~(toAtomicType.basic = "int8" /\ fromAtomicType.basic = "uint8")
    /\ ~(toAtomicType.basic = "int16" /\ fromAtomicType.basic = "uint16")
    /\ ~(toAtomicType.basic = "int32" /\ fromAtomicType.basic = "uint32")
    /\ ~(toAtomicType.basic = "int64" /\ fromAtomicType.basic = "uint64")

\* typecast_ok with every cast left out.
TypecastOkNoCast(fromType, toType, e) == ConvTrue(e)

\* typecast_ok with the precision warning of lMaybeIssuePrecisionWarning issued.
TypecastOkWithWarning(fromType, toType, e) ==
    ConvResult(TRUE, IF e # NullExpr THEN TypeCastE(toType, e) ELSE e, << >>,
               IF /\ IsKind(fromType, "atomic") /\ IsKind(toType, "atomic")
                  /\ lMaybeIssuePrecisionWarning(toType, fromType)
               THEN <<"may lose information">> ELSE << >>,
               FALSE)

\* The label typecast_ok: wrap *expr in a TypeCastExpr to toType.
TypecastOk(fromType, toType, e) ==
    ConvResult(TRUE, IF e # NullExpr THEN TypeCastE(toType, e) ELSE e, << >>, << >>, FALSE)

\* The varying to uniform test applied to atomic types only.
VaryingToUniformAtomicOnly(fromType, toType) ==
    /\ IsKind(fromType, "atomic") /\ IsKind(toType, "atomic")
    /\ IsUniformType(toType) /\ IsVaryingType(fromType)

\* "toType->IsUniformType() && fromType->IsVaryingType()"
VaryingToUniform(fromType, toType) ==
    IsUniformType(toType) /\ IsVaryingType(fromType)

\* The array to pointer case
ArrayToPointerConv(fromType, toType, e, failureOk) ==
    LET elt0 == GetElementType(fromType)
        eltType == IF IsConstType(GetBaseType(toType)) THEN GetAsConstType(elt0) ELSE elt0
    IN  IF Equal(toType, PointerT(eltType, IsUniformType(toType), IsConstType(toType)))
        THEN TypecastOk(fromType, toType, e)
        ELSE ConvError(e, failureOk, "Can't convert from incompatible array type")

\* The case "fromPointerType != NULL"
PointerConv(fromType, toType, e, failureOk) ==
    IF IsKind(toType, "atomic") /\ IsBoolType(toType)
    THEN TypecastOk(fromType, toType, e)
    ELSE IF IsKind(toType, "array") /\ Equal(GetBaseType(fromType), GetElementType(toType))
    THEN TypecastOk(fromType, toType, e)
    ELSE IF ~IsKind(toType, "pointer")
    THEN ConvError(e, failureOk, "Can't convert between from pointer type")
    ELSE IF IsVoidPointer(toType)
    THEN TypecastOk(fromType, toType, e)
    ELSE IF IsVoidPointer(fromType) /\ e # NullExpr /\ e.node = "null"
    THEN TypecastOk(fromType, toType, e)
    ELSE IF /\ ~Equal(GetBaseType(fromType), GetBaseType(toType))
            /\ ~Equal(GetAsConstType(GetBaseType(fromType)), GetBaseType(toType))
    THEN ConvError(e, failureOk, "Can't convert between incompatible pointer types")
    ELSE IF IsVaryingType(toType) /\ IsUniformType(fromType)
    THEN TypecastOk(fromType, toType, e)
    ELSE ConvTrue(e)

\* The reference to reference case
ReferenceToReferenceConv(fromType, toType, e, failureOk) ==
    LET atFrom == GetReferenceTarget(fromType)
        atTo == GetReferenceTarget(toType)
    IN  IF Equal(atTo, GetAsConstType(atFrom))
        THEN TypecastOk(fromType, toType, e)
        ELSE IF /\ IsKind(atFrom, "array") /\ IsKind(atTo, "array")
                /\ Equal(GetElementType(atFrom), GetElementType(atTo))
        THEN TypecastOk(fromType, toType, e)
        ELSE ConvError(e, failureOk, "Can't convert between incompatible reference types")

\* The cases after the reference cases, for two types that are no references:
\* arrays, short vectors, structs, enums and atomic types.
ShapeConv(fromType, toType, e, failureOk) ==
    IF IsKind(toType, "array") /\ IsKind(fromType, "array")
    THEN IF Equal(GetElementType(toType), GetElementType(fromType))
         THEN IF GetElementCount(toType) # GetElementCount(fromType)
              THEN TypecastOk(fromType, toType, e)
              ELSE ConvAbort(e)
         ELSE IF Equal(GetElementType(toType), GetAsConstType(GetElementType(fromType)))
         THEN TypecastOk(fromType, toType, e)
         ELSE ConvError(e, failureOk, "Array type can't be converted")
    ELSE IF IsKind(toType, "vector") /\ IsKind(fromType, "vector")
    THEN IF GetElementCount(fromType) # GetElementCount(toType)
         THEN ConvError(e, failureOk, "Can't convert between differently sized vector types")
         ELSE TypecastOk(fromType, toType, e)
    ELSE IF IsKind(toType, "struct") /\ IsKind(fromType, "struct")
    THEN IF ~Equal(GetAsConstType(GetAsUniformType(toType)),
                   GetAsConstType(GetAsUniformType(fromType)))
         THEN ConvError(e, failureOk, "Can't convert between different struct types")
         ELSE TypecastOk(fromType, toType, e)
    ELSE IF IsKind(toType, "enum") /\ IsKind(fromType, "enum")
    THEN IF ~EqualIgnoringConst(GetAsUniformType(toType), GetAsUniformType(fromType))
         THEN ConvError(e, failureOk, "Can't convert between different enum types")
         ELSE TypecastOk(fromType, toType, e)
    ELSE IF IsKind(fromType, "enum")
    THEN IF IsKind(toType, "atomic") \/ IsKind(toType, "vector")
         THEN TypecastOk(fromType, toType, e)
         ELSE ConvAbort(e)
    ELSE IF ~IsKind(fromType, "atomic")
    THEN ConvError(e, failureOk, "Type conversion only possible from atomic types")
    ELSE IF IsKind(toType, "vector")
    THEN TypecastOk(fromType, toType, e)
    ELSE IF ~IsKind(toType, "atomic")
    THEN ConvError(e, failureOk, "Type conversion only possible to atomic types")
    ELSE TypecastOk(fromType, toType, e)

\* A recursive call of lDoTypeConv on a substituted expression: on success
\* *expr becomes the converted substitute, on failure it stays.
Substituted(r, e) == IF r.ok THEN r ELSE [r EXCEPT !.expr = e]

\* lDoTypeConv
RECURSIVE lDoTypeConv(_, _, _, _)
lDoTypeConv(fromType, toType, e, failureOk) ==
    IF toType = NullType \/ fromType = NullType
    THEN ConvResult(FALSE, e, << >>, << >>, FALSE)
    ELSE IF Equal(toType, fromType)
    THEN ConvTrue(e)
    ELSE IF fromType = Void
    THEN ConvError(e, failureOk, "Can't convert from void")
    ELSE IF toType = Void
    THEN ConvError(e, failureOk, "Can't convert type to void")
    ELSE IF IsKind(fromType, "array") /\ IsKind(toType, "pointer")
    THEN ArrayToPointerConv(fromType, toType, e, failureOk)
    ELSE IF VaryingToUniform(fromType, toType)
    THEN ConvError(e, failureOk, "Can't convert from varying type to uniform type")
    ELSE IF IsKind(fromType, "pointer")
    THEN PointerConv(fromType, toType, e, failureOk)
    ELSE IF /\ IsKind(toType, "pointer") /\ IsKind(fromType, "atomic")
            /\ IsIntType(fromType) /\ e # NullExpr /\ lIsAllIntZeros(e)
    THEN Substituted(lDoTypeConv(PointerVoid, toType, NullPointerE, failureOk), e)
    ELSE IF Equal(toType, GetAsConstType(fromType))
    THEN TypecastOk(fromType, toType, e)
    ELSE IF IsKind(fromType, "reference")
    THEN IF IsKind(toType, "reference")
         THEN ReferenceToReferenceConv(fromType, toType, e, failureOk)
         ELSE IF e # NullExpr
         THEN Substituted(lDoTypeConv(GetType(DereferenceE(e)), toType,
                                      DereferenceE(e), failureOk), e)
         ELSE lDoTypeConv(GetReferenceTarget(fromType), toType, NullExpr, failureOk)
    ELSE IF IsKind(toType, "reference")
    THEN IF e # NullExpr
         THEN Substituted(lDoTypeConv(GetType(ReferenceE(e)), toType,
                                      ReferenceE(e), failureOk), e)
         ELSE lDoTypeConv(ReferenceT(fromType), toType, NullExpr, failureOk)
    ELSE IF Equal(toType, GetAsNonConstType(fromType))
    THEN TypecastOk(fromType, toType, e)
    ELSE ShapeConv(GetReferenceTarget(fromType), GetReferenceTarget(toType), e, failureOk)

\* CanConvertTypes, called without errorMsgBase as the overload resolver does
\* (failureOk is then true) or with one.
CanConvertTypes(fromType, toType, hasErrorMsgBase) ==
    lDoTypeConv(fromType, toType, NullExpr, ~hasErrorMsgBase)

\* TypeConvertExpr: the expression returned (NullExpr for NULL) with the
\* diagnostics of the call.
TypeConvertExpr(e, toType) ==
    IF e = NullExpr
    THEN ConvResult(FALSE, NullExpr, << >>, << >>, FALSE)
    ELSE LET r == lDoTypeConv(GetType(e), toType, e, FALSE)
         IN  IF r.ok THEN r ELSE [r EXCEPT !.expr = NullExpr]

---------------------------------------------------------------------------
(* The types and expressions the conversion is run on *)

Int32U == AtomicT("int32", TRUE, FALSE)

Int32V == AtomicT("int32", FALSE, FALSE)

Int32UC == AtomicT("int32", TRUE, TRUE)

FloatU == AtomicT("float", TRUE, FALSE)

ConvAtomics ==
    { Int32U, Int32V, Int32UC, AtomicT("int32", FALSE, TRUE), FloatU,
      AtomicT("float", FALSE, FALSE), AtomicT("bool", TRUE, FALSE),
      AtomicT("int8", TRUE, FALSE), Void }

ConvEnums ==
    { EnumT("E", TRUE, FALSE), EnumT("E", FALSE, FALSE), EnumT("E", TRUE, TRUE),
      EnumT("F", TRUE, FALSE) }

ConvStructs ==
    { StructT("S", TRUE, FALSE), StructT("S", FALSE, FALSE), StructT("S", TRUE, TRUE),
      StructT("T", TRUE, FALSE) }

ConvPointers ==
    { PointerT(Int32U, TRUE, FALSE), PointerT(Int32U, FALSE, FALSE),
      PointerT(Int32UC, TRUE, FALSE), PointerT(Int32U, TRUE, TRUE),
      PointerT(Int32V, TRUE, FALSE), PointerT(FloatU, TRUE, FALSE),
      PointerT(Void, TRUE, FALSE), PointerVoid }

ConvArrays ==
    { ArrayT(Int32U, 2), ArrayT(Int32U, 3), ArrayT(Int32UC, 2), ArrayT(Int32V, 2),
      ArrayT(FloatU, 2) }

ConvVectors ==
    { VectorT(Int32U, 2), VectorT(Int32U, 3), VectorT(FloatU, 2), VectorT(Int32V, 2) }

ConvReferences ==
    { ReferenceT(Int32U), ReferenceT(Int32UC), ReferenceT(Int32V), ReferenceT(FloatU),
      ReferenceT(ArrayT(Int32U, 2)), ReferenceT(ArrayT(Int32U, 3)),
      ReferenceT(PointerT(Int32U, TRUE, FALSE)) }

ConvTypes ==
    ConvAtomics \cup ConvEnums \cup ConvStructs \cup ConvPointers \cup ConvArrays
        \cup ConvVectors \cup ConvReferences

\* The expressions: one of each type, an all-zero integer constant of each
\* integer type, and the null pointer literal.
ConvExprs ==
    {SymbolE(t) : t \in ConvTypes} \cup {ZeroConstE(t) : t \in {u \in ConvAtomics : IsIntType(u)}}
        \cup {NullPointerE}

NoResult == ConvResult(FALSE, NullExpr, << >>, << >>, FALSE)

\* No conversion is under way.
ConvIdle ==
    /\ cExpr = NullExpr
    /\ cTo = NullType
    /\ cCall = "idle"
    /\ cResult = NoResult

ConvInit ==
    /\ cExpr \in ConvExprs
    /\ cTo \in ConvTypes
    /\ cCall = "none"
    /\ cResult = NoResult

\* A call TypeConvertExpr(cExpr, cTo, errorMsgBase)
CallTypeConvertExpr ==
    /\ cCall = "none"
    /\ cCall' = "TypeConvertExpr"
    /\ cResult' = TypeConvertExpr(cExpr, cTo)
    /\ UNCHANGED <<cExpr, cTo, notConvVars>>

\* A call CanConvertTypes(cExpr->GetType(), cTo), with or without errorMsgBase
CallCanConvertTypes ==
    /\ cCall = "none"
    /\ \E hasErrorMsgBase \in BOOLEAN :
          /\ cCall' = IF hasErrorMsgBase THEN "CanConvertTypesMsg" ELSE "CanConvertTypes"
          /\ cResult' = CanConvertTypes(GetType(cExpr), cTo, hasErrorMsgBase)
    /\ UNCHANGED <<cExpr, cTo, notConvVars>>

ConvNext ==
    \/ CallTypeConvertExpr
    \/ CallCanConvertTypes

---------------------------------------------------------------------------
(* Overload resolution: FunctionSymbolExpr (expr.cpp) *)

\* A FunctionType whose parameters may have default values: ds[i] tells
\* whether GetParameterDefault(i) is non-NULL.
FunctionTypeWithDefaults(r, ps, ds) ==
    [kind |-> "function", ret |-> r, params |-> ps, defaults |-> ds]

\* FunctionType::GetNumParameters
GetNumParameters(ft) == Len(ft.params)

\* FunctionType::GetParameterType; parameters are counted from 1 here
GetParameterType(ft, i) == ft.params[i]

\* GetParameterDefault taken to be non-NULL for every parameter.
HasParameterDefaultAlways(ft, i) == TRUE

\* "ft->GetParameterDefault(i) != NULL"
HasParameterDefault(ft, i) == ft.defaults[i]

\* "x = v; ..." : the value of F(x) for the value x of v, computed once
With(v, F(_)) == CHOOSE r \in {F(x) : x \in {v}} : TRUE

\* lExactMatch
lExactMatch(callType, funcArgType) ==
    LET nonConst == IF ~IsKind(callType, "reference")
                    THEN GetAsNonConstType(callType) ELSE callType
        asRef == IF IsKind(funcArgType, "reference") /\ ~IsKind(nonConst, "reference")
                 THEN ReferenceT(nonConst) ELSE nonConst
    IN  IF Equal(asRef, funcArgType) THEN 0 ELSE -1

\* lMatchIgnoringReferences
lMatchIgnoringReferences(callType, funcArgType) ==
    With(lExactMatch(callType, funcArgType), LAMBDA prev :
        IF prev # -1 THEN prev
        ELSE LET target == GetReferenceTarget(callType)
                 ct == IF IsConstType(funcArgType) THEN GetAsConstType(target) ELSE target
             IN  IF Equal(ct, GetReferenceTarget(funcArgType)) THEN 1 ELSE -1)

\* The switch of lMatchWithTypeWidening on the basic types of two atomic types.
\* TYPE_VOID takes the default case, which is FATAL: see lMatchAborts.
WideningTable(callBasic, funcBasic) ==
    CASE callBasic = "bool" -> 1
      [] callBasic \in {"int8", "uint8"} -> IF funcBasic # "bool" THEN 1 ELSE -1
      [] callBasic \in {"int16", "uint16"} ->
            IF funcBasic \notin {"bool", "int8", "uint8"} THEN 1 ELSE -1
      [] callBasic \in {"int32", "uint32"} ->
            IF funcBasic \in {"int32", "uint32", "int64", "uint64"} THEN 1 ELSE -1
      [] callBasic = "float" -> IF funcBasic = "double" THEN 1 ELSE -1
      [] callBasic \in {"int64", "uint64"} ->
            IF funcBasic \in {"int64", "uint64"} THEN 1 ELSE -1
      [] OTHER -> -1

\* lMatchWithTypeWidening
lMatchWithTypeWidening(callType, funcArgType) ==
    With(lMatchIgnoringReferences(callType, funcArgType), LAMBDA prev :
        IF prev # -1 THEN prev
        ELSE IF ~IsKind(callType, "atomic") \/ ~IsKind(funcArgType, "atomic") THEN -1
        ELSE IF IsUniformType(callType) # IsUniformType(funcArgType) THEN -1
        ELSE WideningTable(callType.basic, funcArgType.basic))

\* lMatchIgnoringUniform
lMatchIgnoringUniform(callType, funcArgType) ==
    With(lMatchWithTypeWidening(callType, funcArgType), LAMBDA prev :
        IF prev # -1 THEN prev
        ELSE LET ct == IF ~IsKind(callType, "reference")
                       THEN GetAsNonConstType(callType) ELSE callType
             IN  IF /\ IsUniformType(ct)
                    /\ IsVaryingType(funcArgType)
                    /\ Equal(GetAsVaryingType(ct), funcArgType)
                 THEN 1 ELSE -1)

\* lMatchWithTypeConvSameVariability
lMatchWithTypeConvSameVariability(callType, funcArgType) ==
    With(lMatchIgnoringUniform(callType, funcArgType), LAMBDA prev :
        IF prev # -1 THEN prev
        ELSE IF /\ CanConvertTypes(callType, funcArgType, FALSE).ok
                /\ IsUniformType(callType) = IsUniformType(funcArgType)
        THEN 1 ELSE -1)

\* lMatchWithTypeConv
lMatchWithTypeConv(callType, funcArgType) ==
    With(lMatchWithTypeConvSameVariability(callType, funcArgType), LAMBDA prev :
        IF prev # -1 THEN prev
        ELSE IF CanConvertTypes(callType, funcArgType, FALSE).ok THEN 0 ELSE -1)

\* The six predicates ResolveOverloads hands to tryResolve, in its order.
matchFunc(k, callType, funcArgType) ==
    CASE k = 1 -> lExactMatch(callType, funcArgType)
      [] k = 2 -> lMatchIgnoringReferences(callType, funcArgType)
      [] k = 3 -> lMatchWithTypeWidening(callType, funcArgType)
      [] k = 4 -> lMatchIgnoringUniform(callType, funcArgType)
      [] k = 5 -> lMatchWithTypeConvSameVariability(callType, funcArgType)
      [] k = 6 -> lMatchWithTypeConv(callType, funcArgType)

\* Whether predicate k stops the compiler on this pair: lMatchWithTypeWidening
\* reaches FATAL("Unhandled atomic type") for a void argument, and the later
\* CanConvertTypes may fail an Assert of lDoTypeConv.
lMatchAborts(k, callType, funcArgType) ==
    LET fatal == /\ lMatchIgnoringReferences(callType, funcArgType) = -1
                 /\ IsKind(callType, "atomic") /\ IsKind(funcArgType, "atomic")
                 /\ IsUniformType(callType) = IsUniformType(funcArgType)
                 /\ callType.basic = "void"
    IN  \/ k >= 3 /\ fatal
        \/ /\ k >= 5 /\ ~fatal
           /\ lMatchIgnoringUniform(callType, funcArgType) = -1
           /\ CanConvertTypes(callType, funcArgType, FALSE).abort

\* "argCouldBeNULL != NULL && (*argCouldBeNULL)[i] == true"
CouldBeNULL(flags, i) == i <= Len(flags) /\ flags[i]

\* The loop of tryResolve over the call arguments, from argument i on with the
\* cost so far: how the loop ends ("all" arguments matched, "break", "return
\* false", or "abort" when the predicate stops the compiler) and the cost.
RECURSIVE lArgCosts(_, _, _, _, _, _)
lArgCosts(k, ft, callTypes, flags, i, cost) ==
    IF i > Len(callTypes)
    THEN [end |-> "all", cost |-> cost]
    ELSE IF \/ callTypes[i] = NullType
            \/ GetParameterType(ft, i) = NullType
            \/ IsKind(callTypes[i], "function")
    THEN [end |-> "return false", cost |-> cost]
    ELSE IF lMatchAborts(k, callTypes[i], GetParameterType(ft, i))
    THEN [end |-> "abort", cost |-> cost]
    ELSE With(matchFunc(k, callTypes[i], GetParameterType(ft, i)), LAMBDA argCost :
             IF argCost = -1
             THEN IF CouldBeNULL(flags, i) /\ IsKind(GetParameterType(ft, i), "pointer")
                  THEN lArgCosts(k, ft, callTypes, flags, i + 1, cost)
                  ELSE [end |-> "break", cost |-> cost]
             ELSE lArgCosts(k, ft, callTypes, flags, i + 1, cost + argCost))

\* The loop of tryResolve over the candidates, from candidate c on with the
\* matches so far: how it ends ("done" when it ran through) and the matches.
RECURSIVE lMatches(_, _, _, _, _, _)
lMatches(k, cands, callTypes, flags, c, matches) ==
    IF c > Len(cands)
    THEN [end |-> "done", matches |-> matches]
    ELSE IF Len(callTypes) > GetNumParameters(cands[c].type)
    THEN lMatches(k, cands, callTypes, flags, c + 1, matches)
    ELSE With(lArgCosts(k, cands[c].type, callTypes, flags, 1, 0), LAMBDA a :
             IF a.end \in {"return false", "abort"}
             THEN [end |-> a.end, matches |-> matches]
             ELSE IF /\ a.end = "all"
                     /\ \/ Len(callTypes) = GetNumParameters(cands[c].type)
                        \/ HasParameterDefault(cands[c].type, Len(callTypes) + 1)
             THEN lMatches(k, cands, callTypes, flags, c + 1,
                           Append(matches, [cost |-> a.cost, sym |-> cands[c]]))
             ELSE lMatches(k, cands, callTypes, flags, c + 1, matches))

\* The lowest cost among the matches
MinCost(matches) ==
    CHOOSE c \in {matches[i].cost : i \in 1..Len(matches)} :
        \A i \in 1..Len(matches) : c <= matches[i].cost

\* The matches that have the lowest cost, in order
BestMatches(matches) == SelectSeq(matches, LAMBDA m : m.cost = MinCost(matches))

\* lGetBestMatch: the match of lowest cost if there is one only, else NULL
lGetBestMatch(matches) ==
    IF Len(BestMatches(matches)) = 1 THEN BestMatches(matches)[1].sym ELSE NullSym

\* lPrintOverloadCandidates: one Error per function, and one for the types passed
lPrintOverloadCandidates(funcs) ==
    [i \in 1..Len(funcs) |-> "Candidate function:"] \o <<"Passed types">>

\* What a call of tryResolve gives
TryResult(r, m, errs, ms) == [ret |-> r, matchingFunc |-> m, errors |-> errs, matches |-> ms]

\* The end of tryResolve, from "if (matches.size() == 0)" on, that goes on to
\* the next predicate after an ambiguous set of matches.
lResolvedGoOnWhenAmbiguous(r) ==
    IF r.end = "abort" THEN TryResult("abort", matchingFunc, << >>, << >>)
    ELSE IF r.end = "return false" \/ r.matches = << >>
    THEN TryResult("false", matchingFunc, << >>, << >>)
    ELSE With(lGetBestMatch(r.matches), LAMBDA best :
             IF best # NullSym
             THEN TryResult("true", best, << >>, r.matches)
             ELSE TryResult("false", NullSym,
                            <<"Multiple overloaded instances of function matched">>
                                \o lPrintOverloadCandidates(BestMatches(r.matches)),
                            r.matches))

\* The end of tryResolve, from "if (matches.size() == 0)" on, for how the
\* loop over the candidates ended: the value returned, matchingFunc afterwards,
\* the errors reported and the matches found.
lResolved(r) ==
    IF r.end = "abort" THEN TryResult("abort", matchingFunc, << >>, << >>)
    ELSE IF r.end = "return false" \/ r.matches = << >>
    THEN TryResult("false", matchingFunc, << >>, << >>)
    ELSE With(lGetBestMatch(r.matches), LAMBDA best :
             IF best # NullSym
             THEN TryResult("true", best, << >>, r.matches)
             ELSE TryResult("true", NullSym,
                            <<"Multiple overloaded instances of function matched">>
                                \o lPrintOverloadCandidates(BestMatches(r.matches)),
                            r.matches))

\* FunctionSymbolExpr::tryResolve with predicate k
tryResolve(k, callTypes, flags) ==
    With(lMatches(k, candidateFunctions, callTypes, flags, 1, << >>), LAMBDA r : lResolved(r))

\* "name.substr(0,2) == "__""
exactMatchOnly == Len(name) >= 2 /\ SubSeq(name, 1, 2) = <<"_", "_">>

\* The predicate ResolveOverloads goes on to when predicate k found nothing;
\* past the last one it reports the failure.
\* A variant that goes through all six predicates whatever the name
NextTierWhateverName(k) == IF k = 6 THEN 7 ELSE k + 1

NextTier(k) == IF k = 6 \/ exactMatchOnly THEN 7 ELSE k + 1

\* One call "if (tryResolve(...)) return true;" of ResolveOverloads
Try(k) ==
    /\ tier = k
    /\ oRet = "none"
    /\ \E r \in {tryResolve(k, argTypes, argCouldBeNULL)} :
           /\ matchingFunc' = r.matchingFunc
           /\ oErrors' = oErrors \o r.errors
           /\ tried' = Append(tried, [tier |-> k, ret |-> r.ret, matches |-> r.matches])
           /\ oRet' = IF r.ret = "false" THEN "none" ELSE r.ret
           /\ tier' = IF r.ret = "false" THEN NextTier(k) ELSE k
    /\ UNCHANGED <<name, candidateFunctions, argTypes, argCouldBeNULL>>

\* The entry of ResolveOverloads and its first call of tryResolve
TryExactMatch ==
    /\ ~triedToResolve
    /\ triedToResolve' = TRUE
    /\ Try(1)
    /\ UNCHANGED notOvVars

TryMatchIgnoringReferences == Try(2) /\ UNCHANGED <<triedToResolve, notOvVars>>

TryMatchWithTypeWidening == Try(3) /\ UNCHANGED <<triedToResolve, notOvVars>>

TryMatchIgnoringUniform == Try(4) /\ UNCHANGED <<triedToResolve, notOvVars>>

TryMatchWithTypeConvSameVariability == Try(5) /\ UNCHANGED <<triedToResolve, notOvVars>>

TryMatchWithTypeConv == Try(6) /\ UNCHANGED <<triedToResolve, notOvVars>>

\* The end of ResolveOverloads: "failure :-("
UnableToFindMatchingOverload ==
    /\ tier = 7
    /\ oRet = "none"
    /\ oErrors' = oErrors \o <<"Unable to find matching overload for call to function">>
                     \o lPrintOverloadCandidates(candidateFunctions)
    /\ oRet' = "false"
    /\ UNCHANGED <<name, candidateFunctions, matchingFunc, triedToResolve, argTypes,
                   argCouldBeNULL, tier, tried, notOvVars>>

OvNext ==
    \/ TryExactMatch
    \/ TryMatchIgnoringReferences
    \/ TryMatchWithTypeWidening
    \/ TryMatchIgnoringUniform
    \/ TryMatchWithTypeConvSameVariability
    \/ TryMatchWithTypeConv
    \/ UnableToFindMatchingOverload

---------------------------------------------------------------------------
(* The calls the overload resolution is run on *)

Int64U == AtomicT("int64", TRUE, FALSE)

Int16U == AtomicT("int16", TRUE, FALSE)

FloatV == AtomicT("float", FALSE, FALSE)

\* A function of one parameter, without a default value
Function1(p) == FunctionTypeWithDefaults(Void, <<p>>, <<FALSE>>)

\* A function of two parameters, the second with or without a default value
Function2(p, q, d) == FunctionTypeWithDefaults(Void, <<p, q>>, <<FALSE, d>>)

OvParamTypes ==
    { Int32U, Int32V, Int64U, FloatU, FloatV, PointerT(Int32U, TRUE, FALSE),
      StructT("S", TRUE, FALSE) }

OvFuncTypes ==
    {Function1(p) : p \in OvParamTypes}
        \cup { Function2(Int32U, Int64U, FALSE), Function2(Int64U, Int32U, FALSE),
               Function2(Int64U, Int64U, FALSE), Function2(Int32U, FloatU, TRUE) }

\* The overload sets: one function, or two of different types, in either order
OvCandidates(n) ==
    {<<Symbol(n, 1, t)>> : t \in OvFuncTypes}
        \cup {<<Symbol(n, 1, p[1]), Symbol(n, 2, p[2])>> :
                 p \in {q \in OvFuncTypes \X OvFuncTypes : q[1] # q[2]}}

\* The argument types: NULL is the type of an argument that failed to type
\* check, and the function type that of a function passed by name.
OvArgTypes ==
    { Int32U, Int32UC, Int16U, ReferenceT(Int32U), EnumT("E", TRUE, FALSE), Void,
      NullType, FuncTypeInt }

OvArgLists ==
    {<< >>} \cup {<<a>> : a \in OvArgTypes} \cup {<<a, b>> : a \in OvArgTypes, b \in OvArgTypes}

\* The flags a call can come with: none (a NULL pointer), or one per argument,
\* true only for an integer argument (it is lIsAllIntZeros of the argument).
OvFlags(ts) ==
    {<< >>} \cup {f \in [1..Len(ts) -> BOOLEAN] : \A i \in 1..Len(ts) : f[i] => IsIntType(ts[i])}

OvNames == {"f", "__f"}

\* The characters of a name
Chars(n) == IF n = "__f" THEN <<"_", "_", "f">> ELSE <<"f">>

\* No overload resolution is under way.
OvIdle ==
    /\ name = << >>
    /\ candidateFunctions = << >>
    /\ matchingFunc = NullSym
    /\ triedToResolve = FALSE
    /\ argTypes = << >>
    /\ argCouldBeNULL = << >>
    /\ tier = 0
    /\ oRet = "idle"
    /\ oErrors = << >>
    /\ tried = << >>

\* FunctionSymbolExpr::FunctionSymbolExpr, and the arguments of the call
OvInit ==
    /\ \E n \in OvNames :
          /\ name = Chars(n)
          /\ candidateFunctions \in OvCandidates(n)
    /\ matchingFunc = IF Len(candidateFunctions) = 1 THEN candidateFunctions[1] ELSE NullSym
    /\ triedToResolve = FALSE
    /\ argTypes \in OvArgLists
    /\ argCouldBeNULL \in OvFlags(argTypes)
    /\ tier = 1
    /\ oRet = "none"
    /\ oErrors = << >>
    /\ tried = << >>

---------------------------------------------------------------------------
(* The overload predicates on their own *)

BasicTypes ==
    {"bool", "int8", "uint8", "int16", "uint16", "int32", "uint32", "float", "int64",
     "uint64", "double"}

\* The types the predicates are applied to: every atomic type that is not
\* const, and one each of the void, const, reference, enum and pointer types.
PredTypes ==
    {AtomicT(b, u, FALSE) : b \in BasicTypes, u \in BOOLEAN}
        \cup { Void, Int32UC, ReferenceT(Int32U), EnumT("E", TRUE, FALSE),
               PointerT(Int32U, TRUE, FALSE) }

\* No predicate has returned anything.
NoCost == [cost |-> -1, abort |-> FALSE]

\* No predicate is applied.
PredIdle ==
    /\ pCallType = NullType
    /\ pFuncArgType = NullType
    /\ pPred = -1
    /\ pCost = NoCost

PredInit ==
    /\ pCallType \in PredTypes
    /\ pFuncArgType \in PredTypes \ {Void}
    /\ pPred = 0
    /\ pCost = NoCost

\* A call matchFunc(callTypes[i], paramType) of tryResolve, with any of the
\* six predicates
CallMatchFunc ==
    /\ pPred = 0
    /\ \E k \in 1..6 :
          /\ pPred' = k
          /\ pCost' = IF lMatchAborts(k, pCallType, pFuncArgType)
                      THEN [cost |-> -1, abort |-> TRUE]
                      ELSE [cost |-> matchFunc(k, pCallType, pFuncArgType), abort |-> FALSE]
    /\ UNCHANGED <<pCallType, pFuncArgType, notPredVars>>

PredNext == CallMatchFunc

---------------------------------------------------------------------------
(* Type checking of unary, assignment and call expressions (expr.cpp) *)

\* Type::IsFloatType
IsFloatType(t) == t.kind = "atomic" /\ t.basic \in {"float", "double"}

\* Type::IsNumericType
IsNumericType(t) == IsFloatType(t) \/ IsIntType(t)

\* FunctionType::isTask: the function types built by TaskFunctionType have it set
isTask(ft) == "isTask" \in DOMAIN ft

\* A FunctionType with the "task" qualifier
TaskFunctionType(r, ps, ds) ==
    [kind |-> "function", ret |-> r, params |-> ps, defaults |-> ds, isTask |-> TRUE]

\* FunctionType::GetReturnType
GetReturnType(ft) == ft.ret

\* The members of the struct types the checks are run on:
\*   struct S { int a; float b; }        struct K { const int k; int m; }
\*   struct M { S s; int m; }            struct N { int a; K inner; }
\*   struct D { M m; N n; }
StructElements(n) ==
    CASE n = "S" -> <<AtomicT("int32", TRUE, FALSE), AtomicT("float", TRUE, FALSE)>>
      [] n = "K" -> <<AtomicT("int32", TRUE, TRUE), AtomicT("int32", TRUE, FALSE)>>
      [] n = "M" -> <<StructT("S", TRUE, FALSE), AtomicT("int32", TRUE, FALSE)>>
      [] n = "N" -> <<AtomicT("int32", TRUE, FALSE), StructT("K", TRUE, FALSE)>>
      [] n = "D" -> <<StructT("M", TRUE, FALSE), StructT("N", TRUE, FALSE)>>
      [] OTHER -> << >>

\* StructType::GetElementCount
StructGetElementCount(st) == Len(StructElements(st.name))

\* StructType::GetElementType: the member's type, varying in a varying struct
\* and const in a const one
StructGetElementType(st, i) ==
    LET t == StructElements(st.name)[i]
        v == IF st.uniform THEN t ELSE GetAsVaryingType(t)
    IN  IF st.const THEN GetAsConstType(v) ELSE v

\* Expr::GetBaseSymbol() != NULL: SymbolExpr has one; TypeCastExpr,
\* ReferenceExpr and DereferenceExpr have their operand's; the default is NULL.
RECURSIVE HasBaseSymbol(_)
HasBaseSymbol(e) ==
    CASE e.node = "symbol" -> TRUE
      [] e.node \in {"typecast", "deref", "ref"} -> HasBaseSymbol(e.expr)
      [] OTHER -> FALSE

\* An Error() call: its message and, where the message names a member of a
\* struct type, the struct, the member's place in it and the member's type.
ErrElement(m, st, i, t) == [msg |-> m, struct |-> st, element |-> i, type |-> t]

Err(m) == ErrElement(m, "", 0, NullType)

Errs(ms) == [i \in 1..Len(ms) |-> Err(ms[i])]

\* What a TypeCheck() gives: "NULL", "this" or "abort" when an Assert stops
\* the compiler; the Error() calls made; the node with its operands as
\* TypeCheck() left them; and the function symbol's fields afterwards.
Checked(r, errs, n, mf, ttr) ==
    [ret |-> r, errors |-> errs, node |-> n, matchingFunc |-> mf, triedToResolve |-> ttr]

\* A return that leaves the function symbol alone
Returns(r, ms, n) == Checked(r, Errs(ms), n, matchingFunc, triedToResolve)

\* lMatchingBoolType: the bool type of the variability, and of the vector
\* length, of the type given
lMatchingBoolType(type) ==
    LET boolBase == AtomicT("bool", IsUniformType(type), FALSE)
    IN  IF IsKind(type, "vector") THEN VectorT(boolBase, GetElementCount(type))
        ELSE boolBase

\* The Assert of lMatchingBoolType fails.
lMatchingBoolTypeAborts(type) ==
    ~IsKind(type, "vector") /\ ~IsKind(type, "atomic") /\ ~IsKind(type, "pointer")

IncDecOps == {"PreInc", "PreDec", "PostInc", "PostDec"}

UnaryOps == IncDecOps \cup {"Negate", "LogicalNot", "BitNot"}

\* "expr = new DereferenceExpr(expr, pos)" for an operand of reference type
Dereferenced(e) == IF IsKind(GetType(e), "reference") THEN DereferenceE(e) ELSE e

\* UnaryExpr::TypeCheck, past the pre/post increment/decrement operators
UnaryRestTypeCheck(n) ==
    LET e    == [n EXCEPT !.expr = Dereferenced(n.expr)]
        type == GetType(e.expr)
    IN  CASE e.op = "Negate" ->
                IF ~IsNumericType(type)
                THEN Returns("NULL", <<"Negate not allowed for non-numeric type">>, e)
                ELSE Returns("this", << >>, e)
          [] e.op = "LogicalNot" ->
                IF lMatchingBoolTypeAborts(type) THEN Returns("abort", << >>, e)
                ELSE With(TypeConvertExpr(e.expr, lMatchingBoolType(type)), LAMBDA c :
                        IF c.abort THEN Returns("abort", c.errors, e)
                        ELSE IF c.expr = NullExpr
                        THEN Returns("NULL", c.errors, [e EXCEPT !.expr = NullExpr])
                        ELSE Returns("this", c.errors, [e EXCEPT !.expr = c.expr]))
          [] OTHER ->
                IF ~IsIntType(type)
                THEN Returns("NULL", <<"~ operator can only be used with integer types">>, e)
                ELSE Returns("this", << >>, e)

CantAssign == "Can't assign to type on left-hand side of expression"

\* UnaryExpr::TypeCheck
UnaryExprTypeCheck(n) ==
    LET type == GetType(n.expr)
    IN  IF n.expr = NullExpr \/ type = NullType THEN Returns("NULL", << >>, n)
        ELSE IF n.op \in IncDecOps
        THEN IF IsConstType(type) THEN Returns("NULL", <<CantAssign>>, n)
             ELSE IF IsNumericType(type) THEN Returns("this", << >>, n)
             ELSE IF ~IsKind(type, "pointer")
             THEN Returns("NULL",
                          <<"Can only pre/post increment numeric and pointer types">>, n)
             ELSE IF IsVoidPointer(type)
             THEN Returns("NULL", <<"Illegal to pre/post increment type">>, n)
             ELSE Returns("this", << >>, n)
        ELSE UnaryRestTypeCheck(n)

\* FunctionSymbolExpr::ResolveOverloads from its call of tryResolve with
\* predicate k on: the value returned, matchingFunc afterwards and the Error()
\* calls made.
RECURSIVE lResolveFrom(_, _, _)
lResolveFrom(k, callTypes, flags) ==
    IF k = 7
    THEN [ret |-> "false", matchingFunc |-> matchingFunc,
          errors |-> <<"Unable to find matching overload for call to function">>
                        \o lPrintOverloadCandidates(candidateFunctions)]
    ELSE With(tryResolve(k, callTypes, flags), LAMBDA r :
            IF r.ret = "false" THEN lResolveFrom(NextTier(k), callTypes, flags)
            ELSE [ret |-> r.ret, matchingFunc |-> r.matchingFunc, errors |-> r.errors])

\* FunctionSymbolExpr::ResolveOverloads; it sets triedToResolve.
ResolveOverloads(callTypes, flags) == lResolveFrom(1, callTypes, flags)

\* The function symbol as an operand: [node |-> "fse"]; its fields are the
\* variables name, candidateFunctions, matchingFunc and triedToResolve.
FunctionSymbolE == [node |-> "fse"]

\* FunctionSymbolExpr::GetType for the values mf and ttr of matchingFunc and
\* triedToResolve: the type, NullType for NULL, and the Error() calls made
FunctionSymbolExprGetType(mf, ttr) ==
    IF ~ttr /\ mf = NullSym
    THEN [type |-> NullType, errors |-> <<"Ambiguous use of overloaded function">>]
    ELSE [type |-> IF mf # NullSym THEN PointerT(mf.type, TRUE, TRUE) ELSE NullType,
          errors |-> << >>]

\* A variant that looks at the members of the struct itself only
lCheckForConstStructMemberDirectOnly(structType, initialType, i) ==
    IF \E j \in 1..StructGetElementCount(structType) :
           IsConstType(StructGetElementType(structType, j))
    THEN [found |-> TRUE,
          errors |-> <<ErrElement("Illegal to assign to type due to element", structType.name,
                                  CHOOSE j \in 1..StructGetElementCount(structType) :
                                      IsConstType(StructGetElementType(structType, j)),
                                  NullType)>>]
    ELSE [found |-> FALSE, errors |-> << >>]

\* lCheckForConstStructMember from member i of structType on: whether a
\* const-qualified member was found, and the Error() call made for it.
RECURSIVE lCheckForConstStructMember(_, _, _)
lCheckForConstStructMember(structType, initialType, i) ==
    IF i > StructGetElementCount(structType)
    THEN [found |-> FALSE, errors |-> << >>]
    ELSE With(StructGetElementType(structType, i), LAMBDA t :
            IF IsConstType(t)
            THEN [found |-> TRUE,
                  errors |-> <<ErrElement(IF structType = initialType
                                          THEN "Illegal to assign to type due to element"
                                          ELSE "Illegal to assign to type in type due to element",
                                          structType.name, i, t)>>]
            ELSE IF IsKind(t, "struct")
            THEN With(lCheckForConstStructMember(t, initialType, 1), LAMBDA r :
                    IF r.found THEN r
                    ELSE lCheckForConstStructMember(structType, initialType, i + 1))
            ELSE lCheckForConstStructMember(structType, initialType, i + 1))

AssignOps == {"Assign", "MulAssign", "DivAssign", "ModAssign", "AddAssign", "SubAssign",
              "ShlAssign", "ShrAssign", "AndAssign", "XorAssign", "OrAssign"}

\* A variant without the check "if (lhsType->IsConstType())"
AssignConvertedNoConstCheck(e, lhsType, c, mf, ttr, errs) ==
    IF c.abort THEN Checked("abort", Errs(errs \o c.errors), e, mf, ttr)
    ELSE IF c.expr = NullExpr
    THEN Checked("NULL", Errs(errs \o c.errors), [e EXCEPT !.rvalue = NullExpr], mf, ttr)
    ELSE With([e EXCEPT !.rvalue = c.expr], LAMBDA e2 :
            IF ~IsKind(lhsType, "struct")
            THEN Checked("this", Errs(errs \o c.errors), e2, mf, ttr)
            ELSE With(lCheckForConstStructMember(lhsType, lhsType, 1), LAMBDA m :
                    Checked(IF m.found THEN "NULL" ELSE "this",
                            Errs(errs \o c.errors) \o m.errors, e2, mf, ttr)))

\* AssignExpr::TypeCheck from "if (rvalue == NULL)" after the conversion c of
\* the right-hand side on
AssignConverted(e, lhsType, c, mf, ttr, errs) ==
    IF c.abort THEN Checked("abort", Errs(errs \o c.errors), e, mf, ttr)
    ELSE IF c.expr = NullExpr
    THEN Checked("NULL", Errs(errs \o c.errors), [e EXCEPT !.rvalue = NullExpr], mf, ttr)
    ELSE With([e EXCEPT !.rvalue = c.expr], LAMBDA e2 :
            IF IsConstType(lhsType)
            THEN Checked("NULL", Errs(errs \o c.errors \o <<CantAssign>>), e2, mf, ttr)
            ELSE IF ~IsKind(lhsType, "struct")
            THEN Checked("this", Errs(errs \o c.errors), e2, mf, ttr)
            ELSE With(lCheckForConstStructMember(lhsType, lhsType, 1), LAMBDA m :
                    Checked(IF m.found THEN "NULL" ELSE "this",
                            Errs(errs \o c.errors) \o m.errors, e2, mf, ttr)))

\* AssignExpr::TypeCheck from "if (lvalue->GetBaseSymbol() == NULL)" on, with
\* the function symbol's fields mf and ttr and the errors made so far.  A
\* function symbol on the right is converted as an expression of the type its
\* GetType() gives.
AssignRest(e, is32Bit, mf, ttr, errs) ==
    LET lhsType == GetType(e.lvalue)
        rvalue == IF e.rvalue = FunctionSymbolE
                  THEN SymbolE(FunctionSymbolExprGetType(mf, ttr).type)
                  ELSE e.rvalue
        deltaType == IF is32Bit THEN AtomicT("int32", IsUniformType(lhsType), FALSE)
                     ELSE AtomicT("int64", IsUniformType(lhsType), FALSE)
    IN  IF ~HasBaseSymbol(e.lvalue)
        THEN Checked("NULL",
                     Errs(errs \o <<"Left hand side of assignment statement can't be assigned to">>),
                     e, mf, ttr)
        ELSE IF IsKind(lhsType, "pointer")
        THEN IF e.op \in {"AddAssign", "SubAssign"}
             THEN IF IsVoidPointer(lhsType)
                  THEN Checked("NULL",
                               Errs(errs \o <<"Illegal to perform pointer arithmetic on type">>),
                               e, mf, ttr)
                  ELSE AssignConverted(e, lhsType, TypeConvertExpr(rvalue, deltaType),
                                       mf, ttr, errs)
             ELSE IF e.op = "Assign"
             THEN AssignConverted(e, lhsType, TypeConvertExpr(rvalue, lhsType), mf, ttr, errs)
             ELSE Checked("NULL",
                          Errs(errs \o <<"Assignment operator is illegal with pointer types">>),
                          e, mf, ttr)
        ELSE IF IsKind(lhsType, "array")
        THEN Checked("NULL", Errs(errs \o <<"Illegal to assign to array type">>), e, mf, ttr)
        ELSE AssignConverted(e, lhsType, TypeConvertExpr(rvalue, lhsType), mf, ttr, errs)

\* AssignExpr::TypeCheck for a function symbol on the right: "Special case to
\* use the type of the LHS to resolve function overloads"
AssignFunctionSymbol(e, is32Bit) ==
    LET lvalueType == GetType(e.lvalue)
    IN  IF ~IsKind(lvalueType, "pointer") \/ ~IsKind(GetBaseType(lvalueType), "function")
        THEN Returns("NULL", <<"Can't assign function pointer to type">>, e)
        ELSE With(ResolveOverloads(GetBaseType(lvalueType).params, << >>), LAMBDA r :
                IF r.ret = "abort" THEN Checked("abort", Errs(r.errors), e, r.matchingFunc, TRUE)
                ELSE IF r.ret = "false"
                THEN Checked("NULL",
                             Errs(r.errors \o <<"Unable to find overloaded function for function pointer assignment">>),
                             e, r.matchingFunc, TRUE)
                ELSE AssignRest(e, is32Bit, r.matchingFunc, TRUE, r.errors))

\* AssignExpr::TypeCheck; is32Bit is g->target.is32Bit
AssignExprTypeCheck(n, is32Bit) ==
    IF n.lvalue = NullExpr \/ n.rvalue = NullExpr THEN Returns("NULL", << >>, n)
    ELSE With([n EXCEPT !.lvalue = Dereferenced(n.lvalue)], LAMBDA e :
            IF e.rvalue = FunctionSymbolE THEN AssignFunctionSymbol(e, is32Bit)
            ELSE AssignRest(e, is32Bit, matchingFunc, triedToResolve, << >>))

\* An ExprList
ExprList(es) == [exprs |-> es]

\* FunctionCallExpr::TypeCheck, "Regular function call", after a
\* ResolveOverloads that returned true: func = ::TypeCheck(fse), which is fse
\* itself (FunctionSymbolExpr::TypeCheck returns this), then the function
\* type and the launch checks.  mf is matchingFunc and errs the errors so far.
CallResolved(n, mf, errs) ==
    LET type == FunctionSymbolExprGetType(mf, TRUE).type
        ft   == GetBaseType(type)
    IN  IF type = NullType
        THEN Checked("NULL",
                     Errs(errs \o <<"Valid function name must be used for function call">>),
                     n, mf, TRUE)
        ELSE IF isTask(ft)
        THEN With(errs \o IF ~n.isLaunch
                          THEN <<"launch expression needed to call function with task qualifier">>
                          ELSE << >>, LAMBDA errs2 :
                IF n.launchCountExpr = NullExpr THEN Checked("NULL", Errs(errs2), n, mf, TRUE)
                ELSE With(TypeConvertExpr(n.launchCountExpr, AtomicT("int32", TRUE, FALSE)),
                          LAMBDA c :
                        IF c.abort THEN Checked("abort", Errs(errs2 \o c.errors), n, mf, TRUE)
                        ELSE Checked(IF c.expr = NullExpr THEN "NULL" ELSE "this",
                                     Errs(errs2 \o c.errors),
                                     [n EXCEPT !.launchCountExpr = c.expr], mf, TRUE)))
        ELSE With(errs \o IF n.isLaunch
                          THEN <<"launch expression illegal with non-task-qualified function">>
                          ELSE << >>, LAMBDA errs2 :
                IF n.launchCountExpr # NullExpr THEN Checked("abort", Errs(errs2), n, mf, TRUE)
                ELSE Checked("this", Errs(errs2), n, mf, TRUE))

\* FunctionCallExpr::TypeCheck, "Regular function call"
CallFunctionSymbol(n, callTypes, flags) ==
    With(ResolveOverloads(callTypes, flags), LAMBDA r :
        IF r.ret = "abort" THEN Checked("abort", Errs(r.errors), n, r.matchingFunc, TRUE)
        ELSE IF r.ret = "false" THEN Checked("NULL", Errs(r.errors), n, r.matchingFunc, TRUE)
        ELSE CallResolved(n, r.matchingFunc, r.errors))

\* The loop "make sure they can all type convert" from argument i on: "ok",
\* "abort", or the Error() for the first argument that can't be converted
RECURSIVE lArgsConvert(_, _, _, _)
lArgsConvert(funcType, callTypes, flags, i) ==
    IF i > Len(callTypes) THEN "ok"
    ELSE With(CanConvertTypes(callTypes[i], GetParameterType(funcType, i), FALSE), LAMBDA c :
            IF c.abort THEN "abort"
            ELSE IF ~c.ok /\ ~(flags[i] /\ IsKind(GetParameterType(funcType, i), "pointer"))
            THEN "Can't convert argument of type to type for funcion call argument"
            ELSE lArgsConvert(funcType, callTypes, flags, i + 1))

\* FunctionCallExpr::TypeCheck, "Call through a function pointer"
CallFunctionPointer(n, callTypes, flags) ==
    LET fptrType == GetType(n.func)
        funcType == GetBaseType(fptrType)
    IN  IF fptrType = NullType THEN Returns("NULL", << >>, n)
        ELSE IF ~IsKind(fptrType, "pointer") THEN Returns("abort", << >>, n)
        ELSE IF ~IsKind(funcType, "function")
        THEN Returns("NULL",
                 <<"Must provide function name or function pointer for function call expression">>,
                 n)
        ELSE IF Len(callTypes) > GetNumParameters(funcType)
        THEN Returns("NULL", <<"Too many parameter values provided in function call">>, n)
        ELSE IF /\ Len(callTypes) < GetNumParameters(funcType)
                /\ ~HasParameterDefault(funcType, Len(callTypes) + 1)
        THEN Returns("NULL", <<"Too few parameter values provided in function call">>, n)
        ELSE With(lArgsConvert(funcType, callTypes, flags, 1), LAMBDA a :
                IF a = "abort" THEN Returns("abort", << >>, n)
                ELSE IF a # "ok" THEN Returns("NULL", <<a>>, n)
                ELSE IF IsVaryingType(fptrType) /\ IsUniformType(GetReturnType(funcType))
                THEN Returns("NULL",
                         <<"Illegal to call a varying function pointer that points to a function with a uniform return type">>,
                         n)
                ELSE Returns("this", << >>, n))

\* FunctionCallExpr::TypeCheck
FunctionCallExprTypeCheck(n) ==
    IF n.func = NullExpr \/ n.args = NullExpr THEN Returns("NULL", << >>, n)
    ELSE IF \E i \in 1..Len(n.args.exprs) :
               n.args.exprs[i] = NullExpr \/ GetType(n.args.exprs[i]) = NullType
    THEN Returns("NULL", << >>, n)
    ELSE With([i \in 1..Len(n.args.exprs) |-> GetType(n.args.exprs[i])], LAMBDA callTypes :
         With([i \in 1..Len(n.args.exprs) |-> lIsAllIntZeros(n.args.exprs[i])], LAMBDA flags :
            IF n.func = FunctionSymbolE THEN CallFunctionSymbol(n, callTypes, flags)
            ELSE CallFunctionPointer(n, callTypes, flags)))

---------------------------------------------------------------------------
(* The expressions type checking is run on *)

\* struct types without and with const members, at depth 1, 2 and 3
TcStructs == {StructT(n, TRUE, FALSE) : n \in {"S", "K", "M", "N", "D"}}

FuncPtr(ft, u) == PointerT(ft, u, FALSE)

\* The types of the left-hand sides and of the operands of ++ and --
TcLhsTypes ==
    { Int32U, Int32UC, Int32V, FloatU, AtomicT("bool", TRUE, FALSE),
      PointerT(Int32U, TRUE, FALSE), PointerT(Int32U, TRUE, TRUE),
      PointerT(Void, TRUE, FALSE), PointerT(Void, TRUE, TRUE),
      StructT("S", TRUE, TRUE),
      ArrayT(Int32U, 2), ArrayT(Int32UC, 2),
      ReferenceT(Int32U), ReferenceT(Int32UC), ReferenceT(StructT("K", TRUE, FALSE)),
      FuncPtr(Function1(Int32U), TRUE), FuncPtr(Function1(Int16U), TRUE),
      FuncPtr(Function1(StructT("S", TRUE, FALSE)), TRUE) }
        \cup TcStructs

\* Left-hand sides: variables, a dereferenced pointer to const, a constant
\* (which has no base symbol) and a missing operand
TcLvalues ==
    {SymbolE(t) : t \in TcLhsTypes}
        \cup { DereferenceE(SymbolE(PointerT(Int32UC, TRUE, FALSE))),
               ZeroConstE(Int32U), ZeroConstE(Int32UC), NullExpr }

\* Right-hand sides, call arguments and launch counts
TcRvalues ==
    {SymbolE(t) : t \in {Int32U, Int16U, FloatU, PointerT(Int32U, TRUE, FALSE)} \cup TcStructs}
        \cup {ZeroConstE(Int32U), NullExpr}

TcAssignOps == {"Assign", "AddAssign", "MulAssign"}

AssignE(o, l, r) == [kind |-> "assign", op |-> o, lvalue |-> l, rvalue |-> r]

UnaryE(o, e) == [kind |-> "unary", op |-> o, expr |-> e]

\* FunctionCallExpr::FunctionCallExpr
FunctionCallE(f, a, il, lce) ==
    [kind |-> "call", func |-> f, args |-> a, isLaunch |-> il, launchCountExpr |-> lce]

\* The overload sets of the function symbol: plain and task functions
TcFuncTypes ==
    { Function1(Int32U), Function1(FloatU), Function1(Int64U), Function1(Int16U),
      TaskFunctionType(Void, <<Int32U>>, <<FALSE>>) }

TcCandidates ==
    {<<Symbol("f", 1, t)>> : t \in TcFuncTypes}
        \cup {<<Symbol("f", 1, p[1]), Symbol("f", 2, p[2])>> :
                 p \in {q \in TcFuncTypes \X TcFuncTypes : q[1] # q[2]}}

\* What a call goes through: the function symbol, function pointers, a
\* pointer to something else, a non-pointer, or nothing
TcFuncs ==
    { FunctionSymbolE, NullExpr,
      SymbolE(FuncPtr(Function1(Int32U), TRUE)), SymbolE(FuncPtr(Function1(Int32U), FALSE)),
      SymbolE(FuncPtr(Function2(Int32U, FloatU, TRUE), TRUE)),
      SymbolE(PointerT(Int32U, TRUE, FALSE)), SymbolE(Int32U) }

TcArgs == {SymbolE(Int32U), SymbolE(Int16U), SymbolE(StructT("S", TRUE, FALSE)),
           ZeroConstE(Int32U), NullExpr}

TcArgLists ==
    {NullExpr, ExprList(<< >>)}
        \cup {ExprList(<<a>>) : a \in TcArgs}
        \cup {ExprList(<<a, SymbolE(FloatU)>>) : a \in TcArgs}

\* "launch" comes with or without a count; a call without it has none.
TcLaunches ==
    { <<FALSE, NullExpr>>, <<TRUE, NullExpr>>, <<TRUE, SymbolE(Int32U)>>,
      <<TRUE, SymbolE(StructT("S", TRUE, FALSE))>> }

\* The node uses the function symbol.
UsesFunctionSymbol(n) ==
    \/ n.kind = "assign" /\ n.rvalue = FunctionSymbolE
    \/ n.kind = "call" /\ n.func = FunctionSymbolE

TcNodes ==
    {UnaryE(o, e) : o \in UnaryOps, e \in TcLvalues}
        \cup {AssignE(o, l, r) : o \in TcAssignOps, l \in TcLvalues,
                                 r \in TcRvalues \cup {FunctionSymbolE}}
        \cup {FunctionCallE(f, a, l[1], l[2]) : f \in TcFuncs, a \in TcArgLists, l \in TcLaunches}

\* No type check is under way.
TcIdle ==
    /\ tcNode = NullExpr
    /\ tcRet = "idle"
    /\ tcErrors = << >>

\* A node as the parser built it, with the function symbol it uses as
\* FunctionSymbolExpr::FunctionSymbolExpr built it
TcInit ==
    /\ tcNode \in TcNodes
    /\ tcRet = "none"
    /\ tcErrors = << >>
    /\ IF UsesFunctionSymbol(tcNode)
       THEN /\ name = Chars("f")
            /\ candidateFunctions \in TcCandidates
            /\ matchingFunc = IF Len(candidateFunctions) = 1
                              THEN candidateFunctions[1] ELSE NullSym
       ELSE /\ name = << >>
            /\ candidateFunctions = << >>
            /\ matchingFunc = NullSym
    /\ triedToResolve = FALSE
    /\ argTypes = << >>
    /\ argCouldBeNULL = << >>
    /\ tier = 0
    /\ oRet = "idle"
    /\ oErrors = << >>
    /\ tried = << >>

\* What a TypeCheck() that gave r leaves behind
TcDone(r) ==
    /\ tcNode' = r.node
    /\ tcRet' = r.ret
    /\ tcErrors' = r.errors
    /\ matchingFunc' = r.matchingFunc
    /\ triedToResolve' = r.triedToResolve
    /\ UNCHANGED <<name, candidateFunctions, argTypes, argCouldBeNULL, tier, oRet, oErrors,
                   tried, symVars, convVars, predVars, gtVars, optVars, cmVars>>

CallUnaryExprTypeCheck ==
    /\ tcRet = "none"
    /\ tcNode.kind = "unary"
    /\ \E r \in {UnaryExprTypeCheck(tcNode)} : TcDone(r)

CallAssignExprTypeCheck ==
    /\ tcRet = "none"
    /\ tcNode.kind = "assign"
    /\ \E is32Bit \in BOOLEAN :
          \E r \in {AssignExprTypeCheck(tcNode, is32Bit)} : TcDone(r)

CallFunctionCallExprTypeCheck ==
    /\ tcRet = "none"
    /\ tcNode.kind = "call"
    /\ \E r \in {FunctionCallExprTypeCheck(tcNode)} : TcDone(r)

TcNext ==
    \/ CallUnaryExprTypeCheck
    \/ CallAssignExprTypeCheck
    \/ CallFunctionCallExprTypeCheck

---------------------------------------------------------------------------
(* The type of an indexed or dereferenced expression (expr.cpp)            *)

\* IndexExpr
IndexE(b, i) == [node |-> "index", baseExpr |-> b, index |-> i]

\* A failed Assert() inside GetType(), which stops the compiler
GetTypeAborted == [kind |-> "abort"]

\* dynamic_cast<const SequentialType *>(t) != NULL
IsSequentialType(t) == t.kind \in {"array", "vector"}

\* IndexExpr::GetType
IndexExprGetType(e) ==
    IF e.baseExpr = NullExpr \/ e.index = NullExpr THEN NullType
    ELSE LET baseExprType == GetType(e.baseExpr)
             indexType == GetType(e.index)
             sequentialType == GetReferenceTarget(baseExprType)
         IN  IF baseExprType = NullType \/ indexType = NullType THEN NullType
             ELSE IF ~IsKind(baseExprType, "pointer") /\ ~IsSequentialType(sequentialType)
                  THEN GetTypeAborted
             ELSE LET elementType == IF IsKind(baseExprType, "pointer")
                                     THEN GetBaseType(baseExprType)
                                     ELSE GetElementType(sequentialType)
                  IN  IF IsUniformType(indexType) THEN elementType
                      ELSE GetAsVaryingType(elementType)

\* DereferenceExpr::GetType
DereferenceExprGetType(e) ==
    IF e.expr = NullExpr THEN NullType
    ELSE LET exprType == GetType(e.expr)
         IN  IF exprType = NullType THEN NullType
             ELSE IF IsKind(exprType, "reference") THEN GetReferenceTarget(exprType)
             ELSE IF ~IsKind(exprType, "pointer") THEN GetTypeAborted
             ELSE IF IsUniformType(exprType) THEN GetBaseType(exprType)
             ELSE GetAsVaryingType(GetBaseType(exprType))

\* The expressions GetType() is called on: element types of either
\* variability, held in an array, a short vector, behind a pointer of either
\* variability or behind a reference, indexed by an integer of either
\* variability.
GtElementTypes ==
    {AtomicT(b, u, FALSE) : b \in {"int32", "float"}, u \in BOOLEAN}
        \cup {StructT("S", u, FALSE) : u \in BOOLEAN}

GtBaseTypes ==
    {ArrayT(t, 2) : t \in GtElementTypes}
        \cup {VectorT(t, 4) : t \in {t \in GtElementTypes : IsKind(t, "atomic")}}
        \cup {PointerT(t, u, FALSE) : t \in GtElementTypes, u \in BOOLEAN}
        \cup {ReferenceT(ArrayT(t, 2)) : t \in GtElementTypes}
        \cup {ReferenceT(t) : t \in GtElementTypes}

GtIndexTypes == {AtomicT("int32", u, FALSE) : u \in BOOLEAN}

GtExprs ==
    {IndexE(b, i) : b \in {SymbolE(t) : t \in GtBaseTypes} \cup {NullExpr},
                    i \in {SymbolE(t) : t \in GtIndexTypes} \cup {NullExpr}}
        \cup {DereferenceE(b) : b \in {SymbolE(t) : t \in GtBaseTypes} \cup {NullExpr}}

\* GetType() is not being called.
GtIdle ==
    /\ gtExpr = NullExpr
    /\ gtRet = [type |-> [kind |-> "idle"]]

GtInit ==
    /\ gtExpr \in GtExprs
    /\ gtRet = [type |-> [kind |-> "none"]]

notGtVars == <<symVars, convVars, ovVars, predVars, tcVars, optVars, cmVars>>

CallIndexExprGetType ==
    /\ gtRet.type.kind = "none"
    /\ gtExpr.node = "index"
    /\ gtRet' = [type |-> IndexExprGetType(gtExpr)]
    /\ UNCHANGED <<gtExpr, notGtVars>>

CallDereferenceExprGetType ==
    /\ gtRet.type.kind = "none"
    /\ gtExpr.node = "deref"
    /\ gtRet' = [type |-> DereferenceExprGetType(gtExpr)]
    /\ UNCHANGED <<gtExpr, notGtVars>>

GtNext ==
    \/ CallIndexExprGetType
    \/ CallDereferenceExprGetType

---------------------------------------------------------------------------
(* The host arithmetic constant folding runs on (expr.cpp).  An int32_t or *)
(* uint32_t is its 32-bit pattern, held as two 16-bit halves <<hi, lo>>, so *)
(* that every operation below is exact modulo 2^32.                        *)

\* 2^16, the size of one half of a 32-bit pattern
Half == 2 ^ 16

Zero32 == <<0, 0>>

One32 == <<0, 1>>

\* INT32_MIN, 0x80000000
IntMin32 == <<32768, 0>>

\* INT32_MAX, 0x7fffffff
IntMax32 == <<32767, 65535>>

\* UINT32_MAX, 0xffffffff, which is also the int32_t -1
AllOnes32 == <<65535, 65535>>

\* a + b in uint32_t
Add32(a, b) ==
    LET lo == a[2] + b[2]
    IN  <<(a[1] + b[1] + lo \div Half) % Half, lo % Half>>

\* ~a
Not32(a) == <<65535 - a[1], 65535 - a[2]>>

\* -a in uint32_t
Neg32(a) == Add32(Not32(a), One32)

\* a - b in uint32_t
Sub32(a, b) == Add32(a, Neg32(b))

\* The 32-bit product of two 16-bit halves, by 8-bit digits
Mul16(x, y) ==
    LET mid == (x \div 256) * (y % 256) + (x % 256) * (y \div 256)
        s == (mid % 256) * 256 + (x % 256) * (y % 256)
    IN  <<(x \div 256) * (y \div 256) + mid \div 256 + s \div Half, s % Half>>

\* a * b in uint32_t
Mul32(a, b) ==
    LET p == Mul16(a[2], b[2])
    IN  <<(p[1] + Mul16(a[1], b[2])[2] + Mul16(a[2], b[1])[2]) % Half, p[2]>>

\* x & y of two halves
RECURSIVE And16(_, _)
And16(x, y) ==
    IF x = 0 \/ y = 0 THEN 0
    ELSE (x % 2) * (y % 2) + 2 * And16(x \div 2, y \div 2)

\* a & b, a | b, a ^ b
And32(a, b) == <<And16(a[1], b[1]), And16(a[2], b[2])>>

Or32(a, b) == <<a[1] + b[1] - And16(a[1], b[1]), a[2] + b[2] - And16(a[2], b[2])>>

Xor32(a, b) ==
    <<a[1] + b[1] - 2 * And16(a[1], b[1]), a[2] + b[2] - 2 * And16(a[2], b[2])>>

\* a < b in uint32_t
LtU32(a, b) == a[1] < b[1] \/ (a[1] = b[1] /\ a[2] < b[2])

\* The sign bit of an int32_t
IsNeg32(a) == a[1] >= 32768

\* a < b in int32_t
LtS32(a, b) == IF IsNeg32(a) # IsNeg32(b) THEN IsNeg32(a) ELSE LtU32(a, b)

\* The magnitude of an int32_t, as a uint32_t
Abs32(a) == IF IsNeg32(a) THEN Neg32(a) ELSE a

\* 2^i for i in 0..31
RECURSIVE Pow2(_)
Pow2(i) == IF i = 0 THEN 1 ELSE 2 * Pow2(i - 1)

\* Bit i of a
Bit32(a, i) == IF i >= 16 THEN (a[1] \div Pow2(i - 16)) % 2 ELSE (a[2] \div Pow2(i)) % 2

\* One step of the unsigned long division of a by b # 0, at bit i, from the
\* quotient and remainder so far.  The remainder stays below 2 * b, so its
\* high half may pass 2^16.
DivModStep(a, b, i, s) ==
    LET lo == 2 * s.rem[2] + Bit32(a, i)
        r2 == <<2 * s.rem[1] + lo \div Half, lo % Half>>
    IN  IF LtU32(r2, b) THEN [quot |-> s.quot, rem |-> r2]
        ELSE [quot |-> IF i >= 16 THEN <<s.quot[1] + Pow2(i - 16), s.quot[2]>>
                       ELSE <<s.quot[1], s.quot[2] + Pow2(i)>>,
              rem |-> IF r2[2] >= b[2] THEN <<r2[1] - b[1], r2[2] - b[2]>>
                      ELSE <<r2[1] - b[1] - 1, r2[2] + Half - b[2]>>]

RECURSIVE DivModFrom(_, _, _, _)
DivModFrom(a, b, i, s) ==
    IF i < 0 THEN s
    ELSE With(DivModStep(a, b, i, s), LAMBDA t : DivModFrom(a, b, i - 1, t))

\* a / b and a % b in uint32_t, b # 0
DivU32(a, b) == DivModFrom(a, b, 31, [quot |-> Zero32, rem |-> Zero32]).quot

ModU32(a, b) == DivModFrom(a, b, 31, [quot |-> Zero32, rem |-> Zero32]).rem

\* a / b and a % b in int32_t, b # 0 and not INT32_MIN / -1: the quotient is
\* truncated towards zero and the remainder has the sign of a.
DivS32(a, b) ==
    LET q == DivU32(Abs32(a), Abs32(b))
    IN  IF IsNeg32(a) # IsNeg32(b) THEN Neg32(q) ELSE q

ModS32(a, b) ==
    LET r == ModU32(Abs32(a), Abs32(b))
    IN  IF IsNeg32(a) THEN Neg32(r) ELSE r

\* A float is m * 2^e with m odd, or zero, an infinity (m its sign) or a NaN.
\* The arithmetic below is exact: it is what the host computes as long as the
\* result has no more than 24 significant bits, which holds for the constants
\* of this model.
RECURSIVE FNorm(_, _)
FNorm(m, e) ==
    IF m = 0 THEN [cls |-> "num", m |-> 0, e |-> 0]
    ELSE IF m % 2 = 0 THEN FNorm(m \div 2, e + 1)
    ELSE [cls |-> "num", m |-> m, e |-> e]

FInf(sign) == [cls |-> "inf", m |-> sign, e |-> 0]

FNaN == [cls |-> "nan", m |-> 0, e |-> 0]

FSign(a) == IF a.m < 0 THEN -1 ELSE 1

\* -a
FNeg(a) == [a EXCEPT !.m = -a.m]

\* The magnitude m as a 32-bit pattern
Magnitude32(m) == LET a == IF m < 0 THEN -m ELSE m IN <<a \div Half, a % Half>>

\* The number of significant bits of a half and of a 32-bit pattern
RECURSIVE BitLen16(_)
BitLen16(x) == IF x = 0 THEN 0 ELSE 1 + BitLen16(x \div 2)

BitLen32(a) == IF a[1] > 0 THEN 16 + BitLen16(a[1]) ELSE BitLen16(a[2])

\* The float nearest to a magnitude of up to 32 bits times 2^ex, ties to even
FloatOfMagnitude(neg, mg, ex) ==
    LET s == BitLen32(mg) - 24
        q == mg[1] * Pow2(16 - s) + mg[2] \div Pow2(s)
        r == mg[2] % Pow2(s)
        up == r > Pow2(s - 1) \/ (r = Pow2(s - 1) /\ q % 2 = 1)
        m == IF s <= 0 THEN mg[1] * Half + mg[2]
             ELSE IF up THEN q + 1 ELSE q
    IN  FNorm(IF neg THEN -m ELSE m, IF s <= 0 THEN ex ELSE ex + s)

\* a + b.  The constants of this model have significands of one or two bits:
\* when the exponents are more than 24 apart the smaller operand is below
\* half a unit in the last place of the larger one, which is then the sum.
FAdd(a, b) ==
    CASE a.cls = "nan" \/ b.cls = "nan" -> FNaN
      [] a.cls = "inf" /\ b.cls = "inf" -> IF a.m = b.m THEN a ELSE FNaN
      [] a.cls = "inf" -> a
      [] b.cls = "inf" -> b
      [] a.m = 0 -> b
      [] b.m = 0 -> a
      [] a.e - b.e > 24 -> a
      [] b.e - a.e > 24 -> b
      [] OTHER ->
            LET e == IF a.e < b.e THEN a.e ELSE b.e
                m == a.m * Pow2(a.e - e) + b.m * Pow2(b.e - e)
            IN  FloatOfMagnitude(m < 0, Magnitude32(m), e)

\* a - b
FSub(a, b) == FAdd(a, FNeg(b))

\* a * b
FMul(a, b) ==
    CASE a.cls = "nan" \/ b.cls = "nan" -> FNaN
      [] a.cls = "inf" \/ b.cls = "inf" ->
            IF a.m = 0 \/ b.m = 0 THEN FNaN ELSE FInf(FSign(a) * FSign(b))
      [] OTHER -> FNorm(a.m * b.m, a.e + b.e)

\* a / b, for a divisor that is zero, infinite or a power of two
FDiv(a, b) ==
    CASE a.cls = "nan" \/ b.cls = "nan" -> FNaN
      [] a.cls = "inf" -> IF b.cls = "inf" THEN FNaN ELSE FInf(FSign(a) * FSign(b))
      [] b.cls = "inf" -> FNorm(0, 0)
      [] b.m = 0 -> IF a.m = 0 THEN FNaN ELSE FInf(FSign(a))
      [] b.m \in {1, -1} -> FNorm(a.m * b.m, a.e - b.e)

\* a < b and a == b
FLt(a, b) ==
    CASE a.cls = "nan" \/ b.cls = "nan" -> FALSE
      [] a.cls = "inf" -> a.m < 0 /\ a # b
      [] b.cls = "inf" -> b.m > 0
      [] OTHER -> FSub(a, b).m < 0

FEq(a, b) == a.cls # "nan" /\ b.cls # "nan" /\ a = b

\* 2^i as a 32-bit pattern
Pow2As32(i) == IF i >= 16 THEN <<Pow2(i - 16), 0>> ELSE <<0, Pow2(i)>>

\* A double is a sign, a 32-bit magnitude and an exponent: it holds every
\* int32_t, uint32_t and float exactly.
DoubleOf(n, mg, ex) == [neg |-> n, mag |-> mg, e |-> ex]

\* (double)v of an int32_t, a uint32_t and a float (finite in this model)
DoubleOfInt32(v) == DoubleOf(IsNeg32(v), Abs32(v), 0)

DoubleOfUInt32(v) == DoubleOf(FALSE, v, 0)

DoubleOfFloat(f) == DoubleOf(f.m < 0, Magnitude32(f.m), f.e)

\* -v of a double
DoubleNeg(d) == [d EXCEPT !.neg = ~d.neg]

\* (float)v of a double
FloatOfDouble(d) == FloatOfMagnitude(d.neg, d.mag, d.e)

\* The integer part of a double's magnitude; << >> when it has more than 32
\* bits
TruncMagnitude(d) ==
    IF d.mag = Zero32 THEN Zero32
    ELSE IF d.e >= 0
         THEN IF BitLen32(d.mag) + d.e > 32 THEN << >>
              ELSE Mul32(d.mag, Pow2As32(d.e))
    ELSE IF -d.e > 31 THEN Zero32
    ELSE DivU32(d.mag, Pow2As32(-d.e))

\* What a conversion of a floating-point value to an integer type gives when
\* the truncated value is not representable, which is undefined in C++: the
\* low 32 bits of the value (cvttsd2si to a 64-bit register), 0x80000000 (the
\* "integer indefinite" of cvttsd2si to a 32-bit register) or the nearest
\* representable value (saturating conversion instructions).
UndefinedInt32(d) ==
    {IntMin32, IF d.neg THEN IntMin32 ELSE IntMax32}

UndefinedUInt32(d) ==
    LET t == TruncMagnitude(d)
    IN  {IF d.neg THEN Zero32 ELSE AllOnes32}
            \cup (IF t = << >> THEN {Zero32} ELSE {IF d.neg THEN Neg32(t) ELSE t})

\* (int)v of a double: every value the conversion may give
Int32OfDouble(d) ==
    LET t == TruncMagnitude(d)
    IN  IF t # << >> /\ (LtU32(t, IntMin32) \/ (d.neg /\ t = IntMin32))
        THEN {IF d.neg THEN Neg32(t) ELSE t}
        ELSE UndefinedInt32(d)

\* (unsigned int)v of a double
UInt32OfDouble(d) ==
    LET t == TruncMagnitude(d)
    IN  IF t # << >> /\ (~d.neg \/ t = Zero32) THEN {t} ELSE UndefinedUInt32(d)

---------------------------------------------------------------------------
(* Constants and their folding: ConstExpr, UnaryExpr::Optimize,            *)
(* TypeCastExpr::Optimize (expr.cpp)                                       *)

\* g->target.vectorWidth, the number of program instances
VectorWidth == 2

\* ConstExpr::Count of a constant of type t
Count(t) == IF IsVaryingType(t) THEN VectorWidth ELSE 1

\* ConstExpr::getBasicType: an enumerator is held as a uint32_t
getBasicType(t) == IF IsKind(t, "atomic") THEN t.basic ELSE "uint32"

\* A ConstExpr of type t whose lanes hold vs
ConstE(t, vs) == [node |-> "const", type |-> t, vals |-> vs]

\* dynamic_cast<ConstExpr *>(e) != NULL
IsConstExpr(e) == "node" \in DOMAIN e /\ e.node = "const"

\* What Optimize() gives when an Assert() or FATAL() stops the compiler, or
\* when the host traps
Aborted == [node |-> "abort"]

\* A constructor that builds a uniform constant of the first lane whatever
\* the type asked for
ConstExprOfFirstLane(t, basic, vs) ==
    ConstE(GetAsUniformType(GetAsConstType(t)), <<vs[1]>>)

\* ConstExpr::ConstExpr(const Type *, T *, SourcePos) for the T named basic:
\* the type is made const, and has to be the atomic type of T then (or, for
\* uint32_t, an enumeration).
ConstExprOf(t, basic, vs) ==
    LET type == GetAsConstType(t)
    IN  IF (IsKind(type, "atomic") /\ type.basic = basic)
            \/ (basic = "uint32" /\ IsKind(type, "enum"))
        THEN ConstE(type, [i \in 1..Count(type) |-> vs[i]])
        ELSE Aborted

\* lConvertElement: every value the conversion of v from one basic type to
\* another may give.  Between int32_t and uint32_t the pattern is kept.
lConvertElement(from, to, v) ==
    LET ofBool ==
            CASE to = "bool" -> {v}
              [] to \in {"int32", "uint32"} -> {IF v THEN One32 ELSE Zero32}
              [] to = "float" -> {FNorm(IF v THEN 1 ELSE 0, 0)}
              [] to = "double" -> {DoubleOf(FALSE, IF v THEN One32 ELSE Zero32, 0)}
        ofInt ==
            CASE to = "bool" -> {v # Zero32}
              [] to \in {"int32", "uint32"} -> {v}
              [] to = "float" ->
                    {FloatOfDouble(IF from = "int32" THEN DoubleOfInt32(v)
                                   ELSE DoubleOfUInt32(v))}
              [] to = "double" ->
                    {IF from = "int32" THEN DoubleOfInt32(v) ELSE DoubleOfUInt32(v)}
        ofFloat ==
            CASE to = "bool" -> {v.m # 0}
              [] to = "int32" -> Int32OfDouble(DoubleOfFloat(v))
              [] to = "uint32" -> UInt32OfDouble(DoubleOfFloat(v))
              [] to = "float" -> {v}
              [] to = "double" -> {DoubleOfFloat(v)}
    IN  CASE from = "bool" -> ofBool
          [] from \in {"int32", "uint32"} -> ofInt
          [] from = "float" -> ofFloat

\* Every array that takes lane i from the i-th of the given sets
RECURSIVE LaneChoices(_)
LaneChoices(ss) ==
    IF ss = << >> THEN {<< >>}
    ELSE {<<h>> \o t : h \in Head(ss), t \in LaneChoices(Tail(ss))}

\* lConvert, as ConstExpr::AsBool, AsInt32, AsUInt32, AsFloat and AsDouble
\* call it: the lanes of c converted to the basic type to, the first one
\* copied to all lanes when forceVarying is set on a uniform constant.
AsBasic(c, to, forceVarying) ==
    LET conv == LaneChoices([i \in 1..Count(c.type) |->
                                lConvertElement(getBasicType(c.type), to, c.vals[i])])
    IN  IF forceVarying /\ Count(c.type) = 1
        THEN {[i \in 1..VectorWidth |-> v[1]] : v \in conv}
        ELSE conv

\* ConstExpr::ConstExpr(ConstExpr *old, double *v): the type of old, each
\* lane cast from the double to its basic type
ConstExprFromDoubles(old, v) ==
    CASE getBasicType(old.type) = "bool" ->
            {ConstE(old.type, [i \in 1..Count(old.type) |-> v[i].mag # Zero32])}
      [] getBasicType(old.type) = "int32" ->
            {ConstE(old.type, w) :
                w \in LaneChoices([i \in 1..Count(old.type) |-> Int32OfDouble(v[i])])}
      [] getBasicType(old.type) = "uint32" ->
            {ConstE(old.type, w) :
                w \in LaneChoices([i \in 1..Count(old.type) |-> UInt32OfDouble(v[i])])}
      [] getBasicType(old.type) = "float" ->
            {ConstE(old.type, [i \in 1..Count(old.type) |-> FloatOfDouble(v[i])])}
      [] OTHER -> {Aborted}

\* UnaryExpr::GetType
UnaryExprGetType(n) ==
    LET type == GetType(n.expr)
    IN  IF n.expr = NullExpr \/ type = NullType THEN NullType
        ELSE IF n.op = "LogicalNot" THEN lMatchingBoolType(type)
        ELSE type

\* The widths UnaryExpr::Optimize leaves alone
UnfoldedBasics == {"int8", "uint8", "int16", "uint16", "int64", "uint64"}

\* UnaryExpr::Optimize: every result it may give
UnaryExprOptimize(n) ==
    IF ~IsConstExpr(n.expr) THEN {n}
    ELSE LET type == n.expr.type
         IN  IF IsKind(type, "atomic") /\ type.basic \in UnfoldedBasics THEN {n}
             ELSE CASE n.op \in IncDecOps -> {n}
                    [] n.op = "Negate" ->
                          UNION {ConstExprFromDoubles(n.expr,
                                                      [i \in 1..Len(v) |-> DoubleNeg(v[i])]) :
                                    v \in AsBasic(n.expr, "double", FALSE)}
                    [] n.op = "BitNot" ->
                          IF IsKind(type, "atomic") /\ type.basic = "int32"
                          THEN {ConstExprOf(type, "int32", [i \in 1..Len(v) |-> Not32(v[i])]) :
                                    v \in AsBasic(n.expr, "int32", FALSE)}
                          ELSE IF (IsKind(type, "atomic") /\ type.basic = "uint32")
                                    \/ IsKind(type, "enum")
                          THEN {ConstExprOf(type, "uint32", [i \in 1..Len(v) |-> Not32(v[i])]) :
                                    v \in AsBasic(n.expr, "uint32", FALSE)}
                          ELSE {Aborted}
                    [] n.op = "LogicalNot" ->
                          IF ~(IsKind(type, "atomic") /\ type.basic = "bool") THEN {Aborted}
                          ELSE {ConstExprOf(type, "bool", [i \in 1..Len(v) |-> ~v[i]]) :
                                    v \in AsBasic(n.expr, "bool", FALSE)}

\* TypeCastExpr::Optimize: every result it may give
TypeCastExprOptimize(n) ==
    IF ~IsConstExpr(n.expr) THEN {n}
    ELSE LET toType == GetType(n)
         IN  IF ~IsKind(toType, "atomic") /\ ~IsKind(toType, "enum") THEN {n}
             ELSE {ConstExprOf(toType, getBasicType(toType), v) :
                      v \in AsBasic(n.expr, getBasicType(toType), IsVaryingType(toType))}

---------------------------------------------------------------------------
(* BinaryExpr: GetType, TypeCheck and Optimize (expr.cpp).  The operands   *)
(* of this model have atomic types, or references to them, so the array    *)
(* and pointer cases of TypeCheck and GetType do not arise; the shifts are *)
(* left out of its operators.                                              *)

BinaryE(o, a0, a1) == [kind |-> "binary", op |-> o, arg0 |-> a0, arg1 |-> a1]

ArithOps == {"Add", "Sub", "Mul", "Div", "Mod"}

BitOps == {"BitAnd", "BitXor", "BitOr"}

CompareOps == {"Lt", "Gt", "Le", "Ge", "Equal", "NotEqual"}

LogicalOps == {"LogicalAnd", "LogicalOr"}

BinaryOps == ArithOps \cup BitOps \cup CompareOps \cup LogicalOps \cup {"Comma"}

\* The rank ladder of the type promotion rule
RankLadder ==
    <<"bool", "int8", "uint8", "int16", "uint16", "int32", "uint32", "int64", "uint64",
      "float", "double">>

Rank(b) == CHOOSE i \in 1..Len(RankLadder) : RankLadder[i] = b

\* Type::MoreGeneralType of two atomic types or references to them: the
\* higher rank, varying if either is, const if both are.  NullType for any
\* other types.
MoreGeneralType(t0, t1) ==
    LET a == GetReferenceTarget(t0)
        b == GetReferenceTarget(t1)
    IN  IF ~IsKind(a, "atomic") \/ ~IsKind(b, "atomic") \/ a = Void \/ b = Void
        THEN NullType
        ELSE AtomicT(IF Rank(a.basic) >= Rank(b.basic) THEN a.basic ELSE b.basic,
                     a.uniform /\ b.uniform, a.const /\ b.const)

\* BinaryExpr::GetType; GetTypeAborted when its Assert() fails
BinaryExprGetType(n) ==
    IF n.arg0 = NullExpr \/ n.arg1 = NullExpr THEN NullType
    ELSE LET type0 == GetType(n.arg0)
             type1 == GetType(n.arg1)
             exprType == MoreGeneralType(type0, type1)
         IN  IF type0 = NullType \/ type1 = NullType THEN NullType
             ELSE IF n.op = "Comma" THEN type1
             ELSE IF exprType = NullType THEN GetTypeAborted
             ELSE IF n.op \in ArithOps \cup BitOps THEN exprType
             ELSE lMatchingBoolType(exprType)

\* What a TypeCheck() or Optimize() gives: the expression returned (NullExpr
\* for NULL, Aborted when the compiler stopped) and the Error() and
\* Warning() calls made
Outcome(e, errs, warns) == [ret |-> e, errors |-> errs, warnings |-> warns]

\* arg0 = TypeConvertExpr(arg0, t); arg1 = TypeConvertExpr(arg1, t);
\* if (arg0 == NULL || arg1 == NULL) return NULL; return this;
lConvertOperands(n, t) ==
    With(TypeConvertExpr(n.arg0, t), LAMBDA c0 :
        IF c0.abort THEN Outcome(Aborted, c0.errors, c0.warnings)
        ELSE With(TypeConvertExpr(n.arg1, t), LAMBDA c1 :
            IF c1.abort
            THEN Outcome(Aborted, c0.errors \o c1.errors, c0.warnings \o c1.warnings)
            ELSE Outcome(IF c0.expr = NullExpr \/ c1.expr = NullExpr THEN NullExpr
                         ELSE [n EXCEPT !.arg0 = c0.expr, !.arg1 = c1.expr],
                         c0.errors \o c1.errors, c0.warnings \o c1.warnings)))

\* BinaryExpr::TypeCheck, past the dereferencing of reference operands
BinaryRestTypeCheck(n) ==
    LET type0 == GetType(n.arg0)
        type1 == GetType(n.arg1)
    IN  CASE n.op \in BitOps ->
                IF ~IsIntType(type0) /\ ~IsBoolType(type0)
                THEN Outcome(NullExpr, <<"First operand to binary operator must be an integer or bool">>, << >>)
                ELSE IF ~IsIntType(type1) /\ ~IsBoolType(type1)
                THEN Outcome(NullExpr, <<"Second operand to binary operator must be an integer or bool">>, << >>)
                ELSE IF MoreGeneralType(type0, type1) = NullType
                THEN Outcome(NullExpr, << >>, << >>)
                ELSE lConvertOperands(n, MoreGeneralType(type0, type1))
          [] n.op \in ArithOps ->
                IF ~IsNumericType(type0) \/ (n.op = "Mod" /\ IsFloatType(type0))
                THEN Outcome(NullExpr, <<"First operand to binary operator is of invalid type">>, << >>)
                ELSE IF ~IsNumericType(type1) \/ (n.op = "Mod" /\ IsFloatType(type1))
                THEN Outcome(NullExpr, <<"First operand to binary operator is of invalid type">>, << >>)
                ELSE IF MoreGeneralType(type0, type1) = NullType
                THEN Outcome(NullExpr, << >>, << >>)
                ELSE lConvertOperands(n, MoreGeneralType(type0, type1))
          [] n.op \in CompareOps ->
                IF ~IsBoolType(type0) /\ ~IsNumericType(type0)
                THEN Outcome(NullExpr, <<"First operand to operator is of non-comparable type">>, << >>)
                ELSE IF ~IsBoolType(type1) /\ ~IsNumericType(type1)
                THEN Outcome(NullExpr, <<"Second operand to operator is of non-comparable type">>, << >>)
                ELSE IF MoreGeneralType(type0, type1) = NullType
                THEN Outcome(NullExpr, << >>, << >>)
                ELSE lConvertOperands(n, MoreGeneralType(type0, type1))
          [] n.op \in LogicalOps ->
                lConvertOperands(n, AtomicT("bool", IsUniformType(type0) /\ IsUniformType(type1),
                                            FALSE))
          [] n.op = "Comma" -> Outcome(n, << >>, << >>)

\* BinaryExpr::TypeCheck
BinaryExprTypeCheck(n) ==
    IF n.arg0 = NullExpr \/ n.arg1 = NullExpr THEN Outcome(NullExpr, << >>, << >>)
    ELSE IF GetType(n.arg0) = NullType \/ GetType(n.arg1) = NullType
    THEN Outcome(NullExpr, << >>, << >>)
    ELSE BinaryRestTypeCheck([n EXCEPT !.arg0 = Dereferenced(n.arg0),
                                       !.arg1 = Dereferenced(n.arg1)])

\* Whether a + b, a - b and a * b overflow int32_t
AddOverflows(a, b) == IsNeg32(a) = IsNeg32(b) /\ IsNeg32(Add32(a, b)) # IsNeg32(a)

SubOverflows(a, b) == IsNeg32(a) # IsNeg32(b) /\ IsNeg32(Sub32(a, b)) # IsNeg32(a)

MulOverflows(a, b) ==
    LET x == Abs32(a)
        y == Abs32(b)
        cross == x[1] * y[2] + x[2] * y[1]
        low == Mul16(x[2], y[2])
        mag == <<cross + low[1], low[2]>>
        limit == IF IsNeg32(a) # IsNeg32(b) THEN IntMin32 ELSE IntMax32
    IN  /\ a # Zero32
        /\ b # Zero32
        /\ \/ x[1] # 0 /\ y[1] # 0
           \/ x[1] * y[2] >= Half
           \/ x[2] * y[1] >= Half
           \/ mag[1] >= Half
           \/ LtU32(limit, mag)

\* Whether the host operation v0 E v1 of FOLD_OP is undefined in C++: signed
\* overflow, and division or remainder by zero or of INT32_MIN by -1
LaneUndefined(basic, o, a, b) ==
    /\ basic \in {"int32", "uint32"}
    /\ \/ o \in {"Div", "Mod"} /\ b = Zero32
       \/ basic = "int32" /\ o \in {"Div", "Mod"} /\ a = IntMin32 /\ b = AllOnes32
       \/ basic = "int32" /\ o = "Add" /\ AddOverflows(a, b)
       \/ basic = "int32" /\ o = "Sub" /\ SubOverflows(a, b)
       \/ basic = "int32" /\ o = "Mul" /\ MulOverflows(a, b)

\* The value an undefined lane is left with when the host does not trap:
\* add, sub and imul wrap; a divide instruction that does not fault gives 0
\* for a zero divisor, from which the remainder is the dividend, and wraps
\* INT32_MIN / -1.
LaneUntrapped(o, a, b) ==
    CASE o = "Add" -> Add32(a, b)
      [] o = "Sub" -> Sub32(a, b)
      [] o = "Mul" -> Mul32(a, b)
      [] o = "Div" -> IF b = Zero32 THEN Zero32 ELSE IntMin32
      [] o = "Mod" -> IF b = Zero32 THEN a ELSE Zero32

\* v0[i] E v1[i] in the type T named basic, for the operators of
\* lConstFoldBinArithOp and lConstFoldBinIntOp
LaneValue(basic, o, a, b) ==
    CASE basic = "float" ->
            (CASE o = "Add" -> FAdd(a, b)
               [] o = "Sub" -> FSub(a, b)
               [] o = "Mul" -> FMul(a, b)
               [] o = "Div" -> FDiv(a, b))
      [] LaneUndefined(basic, o, a, b) -> LaneUntrapped(o, a, b)
      [] o = "Add" -> Add32(a, b)
      [] o = "Sub" -> Sub32(a, b)
      [] o = "Mul" -> Mul32(a, b)
      [] o = "Div" -> IF basic = "int32" THEN DivS32(a, b) ELSE DivU32(a, b)
      [] o = "Mod" -> IF basic = "int32" THEN ModS32(a, b) ELSE ModU32(a, b)
      [] o = "BitAnd" -> And32(a, b)
      [] o = "BitXor" -> Xor32(a, b)
      [] o = "BitOr" -> Or32(a, b)

\* v0[i] < v1[i] and v0[i] != 0 in T
LaneLess(basic, a, b) ==
    CASE basic = "bool" -> ~a /\ b
      [] basic = "int32" -> LtS32(a, b)
      [] basic = "uint32" -> LtU32(a, b)
      [] basic = "float" -> FLt(a, b)

LaneSame(basic, a, b) == IF basic = "float" THEN FEq(a, b) ELSE a = b

LaneTrue(basic, a) ==
    CASE basic = "bool" -> a
      [] basic \in {"int32", "uint32"} -> a # Zero32
      [] basic = "float" -> a.m # 0

\* v0[i] E v1[i] for the operators of lConstFoldBinLogicalOp, and for those
\* of lConstFoldBoolBinOp on bool
LaneBool(basic, o, a, b) ==
    CASE o = "Lt" -> LaneLess(basic, a, b)
      [] o = "Gt" -> LaneLess(basic, b, a)
      [] o = "Le" -> LaneLess(basic, a, b) \/ LaneSame(basic, a, b)
      [] o = "Ge" -> LaneLess(basic, b, a) \/ LaneSame(basic, a, b)
      [] o = "Equal" -> LaneSame(basic, a, b)
      [] o = "NotEqual" -> ~LaneSame(basic, a, b)
      [] o = "LogicalAnd" -> LaneTrue(basic, a) /\ LaneTrue(basic, b)
      [] o = "LogicalOr" -> LaneTrue(basic, a) \/ LaneTrue(basic, b)
      [] o = "BitAnd" -> a /\ b
      [] o = "BitXor" -> a # b
      [] o = "BitOr" -> a \/ b

\* FOLD_OP over the lanes of carg0, into a ConstExpr of type t; the host may
\* trap instead when a lane is undefined
lFoldLanes(t, basic, o, v0, v1, carg0) ==
    {ConstExprOf(t, basic, [i \in 1..Count(carg0.type) |-> LaneValue(basic, o, v0[i], v1[i])])}
        \cup IF \E i \in 1..Count(carg0.type) : LaneUndefined(basic, o, v0[i], v1[i])
             THEN {Aborted} ELSE {}

\* lConstFoldBinArithOp; the empty set stands for its NULL
lConstFoldBinArithOp(o, basic, v0, v1, carg0) ==
    IF o \in {"Add", "Sub", "Mul", "Div"} THEN lFoldLanes(carg0.type, basic, o, v0, v1, carg0)
    ELSE {}

\* lConstFoldBinIntOp
lConstFoldBinIntOp(o, basic, v0, v1, carg0) ==
    IF o \in {"Mod", "BitAnd", "BitXor", "BitOr"}
    THEN lFoldLanes(carg0.type, basic, o, v0, v1, carg0)
    ELSE {}

\* lConstFoldBinLogicalOp
lConstFoldBinLogicalOp(o, basic, v0, v1, carg0) ==
    IF o \in CompareOps \cup LogicalOps
    THEN {ConstExprOf(AtomicT("bool", IsUniformType(carg0.type), FALSE), "bool",
                      [i \in 1..Count(carg0.type) |-> LaneBool(basic, o, v0[i], v1[i])])}
    ELSE {}

\* lConstFoldBoolBinOp
lConstFoldBoolBinOp(o, v0, v1, carg0) ==
    IF o \in BitOps \cup CompareOps \cup LogicalOps
    THEN {ConstExprOf(carg0.type, "bool",
                      [i \in 1..Count(carg0.type) |-> LaneBool("bool", o, v0[i], v1[i])])}
    ELSE {}

\* if ((ret = f(...)) != NULL) return ret; else ...
OrElse(found, otherwise) == IF found # {} THEN found ELSE otherwise

\* BinaryExpr::Optimize from "if (constArg0 == NULL || constArg1 == NULL)" on:
\* the folding of two constant operands.  Every result it may give.
lFoldConstants(n) ==
    IF ~IsConstExpr(n.arg0) \/ ~IsConstExpr(n.arg1) THEN {n}
    ELSE IF ~EqualIgnoringConst(GetType(n.arg0), GetType(n.arg1)) THEN {Aborted}
    ELSE LET type == GetAsNonConstType(GetType(n.arg0))
             basic == getBasicType(type)
         IN  IF ~(IsKind(type, "enum")
                     \/ (IsKind(type, "atomic")
                           /\ basic \in {"float", "int32", "uint32", "bool"}))
             THEN {n}
             ELSE UNION {
                    CASE basic = "float" ->
                            OrElse(lConstFoldBinArithOp(n.op, basic, v[1], v[2], n.arg0),
                            OrElse(lConstFoldBinLogicalOp(n.op, basic, v[1], v[2], n.arg0),
                                   {n}))
                      [] basic \in {"int32", "uint32"} ->
                            OrElse(lConstFoldBinArithOp(n.op, basic, v[1], v[2], n.arg0),
                            OrElse(lConstFoldBinIntOp(n.op, basic, v[1], v[2], n.arg0),
                            OrElse(lConstFoldBinLogicalOp(n.op, basic, v[1], v[2], n.arg0),
                                   {n})))
                      [] basic = "bool" ->
                            OrElse(lConstFoldBoolBinOp(n.op, v[1], v[2], n.arg0),
                            OrElse(lConstFoldBinLogicalOp(n.op, basic, v[1], v[2], n.arg0),
                                   {n})) :
                    v \in AsBasic(n.arg0, basic, FALSE) \X AsBasic(n.arg1, basic, FALSE)}

\* Type::Equal(t, AtomicType::UniformFloat) || ... VaryingFloat ||
\* UniformConstFloat || VaryingConstFloat
IsFloat32(t) == IsKind(t, "atomic") /\ t.basic = "float"

\* The global Optimize(Expr *) on an operand: a TypeCastExpr is folded by
\* TypeCastExpr::Optimize, every other operand of this model is returned as
\* it is.
OptimizeOperand(e) ==
    IF "node" \in DOMAIN e /\ e.node = "typecast" THEN TypeCastExprOptimize(e) ELSE {e}

\* The global Optimize(Expr *) on a binary expression whose operator is not
\* Div: its operands first, then BinaryExpr::Optimize, which is the folding
\* of constants then.
OptimizeOperands(e) ==
    {IF a[1] = Aborted \/ a[2] = Aborted THEN Aborted
     ELSE [e EXCEPT !.arg0 = a[1], !.arg1 = a[2]] :
        a \in OptimizeOperand(e.arg0) \X OptimizeOperand(e.arg1)}

OptimizeProduct(e) ==
    UNION {IF m = Aborted THEN {Aborted} ELSE lFoldConstants(m) : m \in OptimizeOperands(e)}

\* e = ::TypeCheck(e); if (e == NULL) return NULL; return ::Optimize(e);
\* for the product e the fast-math rewriting built
lCheckedAndOptimized(e, errs) ==
    With(BinaryExprTypeCheck(e), LAMBDA c :
        IF c.ret \in {NullExpr, Aborted} THEN {Outcome(c.ret, errs \o c.errors, c.warnings)}
        ELSE {Outcome(r, errs \o c.errors, c.warnings) : r \in OptimizeProduct(c.ret)})

\* 1.f / inv[i]
One == FNorm(1, 0)

RcpNotFound == "rcp() not found from stdlib.  Can't apply fast-math rcp optimization."

\* BinaryExpr::Optimize reaches "new FunctionSymbolExpr("rcp", rcpFuns, pos)"
lCallsRcp(n, fastMath, rcpFuns) ==
    /\ n.arg0 # NullExpr /\ n.arg1 # NullExpr
    /\ fastMath /\ n.op = "Div"
    /\ ~(IsConstExpr(n.arg1) /\ IsFloat32(GetType(n.arg1)))
    /\ IsFloat32(GetType(n.arg1))
    /\ Len(rcpFuns) = 2

\* BinaryExpr::Optimize, but for the call of rcp(): every outcome it may have
BinaryExprOptimize(n, fastMath, rcpFuns) ==
    IF n.arg0 = NullExpr \/ n.arg1 = NullExpr THEN {Outcome(NullExpr, << >>, << >>)}
    ELSE IF fastMath /\ n.op = "Div" /\ IsConstExpr(n.arg1) /\ IsFloat32(GetType(n.arg1))
    THEN UNION {lCheckedAndOptimized(
                    BinaryE("Mul", n.arg0,
                            ConstExprOf(GetType(n.arg1), "float",
                                        [i \in 1..Len(inv) |-> FDiv(One, inv[i])])), << >>) :
                  inv \in AsBasic(n.arg1, "float", FALSE)}
    ELSE IF fastMath /\ n.op = "Div" /\ IsFloat32(GetType(n.arg1)) /\ Len(rcpFuns) > 0
    THEN {Outcome(Aborted, << >>, << >>)}
    ELSE {Outcome(r, << >>,
                  IF fastMath /\ n.op = "Div" /\ IsFloat32(GetType(n.arg1))
                  THEN <<RcpNotFound>> ELSE << >>) : r \in lFoldConstants(n)}

\* The FunctionCallExpr of rcp() on arg1 that BinaryExpr::Optimize builds
RcpCall(n) == FunctionCallE(FunctionSymbolE, ExprList(<<n.arg1>>), FALSE, NullExpr)

\* The call once it is type checked against the function mf
CheckedCall(call, mf) ==
    [node |-> "call", type |-> GetReturnType(mf.type), func |-> mf, args |-> call.args]

\* BinaryExpr::Optimize from "rcpCall = ::TypeCheck(rcpCall)" on, given what
\* FunctionCallExpr::TypeCheck gave
lRcpProduct(n, c) ==
    LET errs == [i \in 1..Len(c.errors) |-> c.errors[i].msg]
    IN  IF c.ret = "abort" THEN {Outcome(Aborted, errs, << >>)}
        ELSE IF c.ret = "NULL" THEN {Outcome(NullExpr, errs, << >>)}
        ELSE lCheckedAndOptimized(BinaryE("Mul", n.arg0, CheckedCall(c.node, c.matchingFunc)),
                                  errs)

\* TypeCastExpr::TypeCheck of a cast between atomic types
TypeCastExprTypeCheck(n) ==
    IF n.expr = NullExpr \/ GetType(n) = NullType \/ GetType(n.expr) = NullType
    THEN Outcome(NullExpr, << >>, << >>)
    ELSE IF IsVaryingType(GetType(n.expr)) /\ IsUniformType(GetType(n))
    THEN Outcome(NullExpr, <<"Can't type cast from varying type to uniform type">>, << >>)
    ELSE Outcome(n, << >>, << >>)

---------------------------------------------------------------------------
(* The expressions the passes are run on *)

OptBasics == {"bool", "int32", "uint32", "float"}

\* The lane values constants are built from: for the integers the ends of
\* the int32_t and uint32_t ranges and their neighbours
IntVals == <<Zero32, One32, <<0, 2>>, IntMax32, IntMin32, AllOnes32>>

FloatVals == <<FNorm(0, 0), One, FNorm(2, 0), FNorm(1, -1), FNorm(-1, 0)>>

BoolVals == <<FALSE, TRUE>>

ValsOf(b) ==
    CASE b = "bool" -> BoolVals
      [] b \in {"int32", "uint32"} -> IntVals
      [] b = "float" -> FloatVals

\* The lanes of a varying constant: the values from the k-th on, in turn
LanesFrom(vals, k) == [i \in 1..VectorWidth |-> vals[((k + i - 2) % Len(vals)) + 1]]

OptConsts ==
    {ConstE(AtomicT(x[1], x[3], TRUE),
            IF x[3] THEN <<ValsOf(x[1])[x[2]]>> ELSE LanesFrom(ValsOf(x[1]), x[2])) :
        x \in {y \in OptBasics \X (1..Len(IntVals)) \X BOOLEAN : y[2] <= Len(ValsOf(y[1]))}}

OptSymbols ==
    {SymbolE(AtomicT(b, u, FALSE)) : b \in OptBasics, u \in BOOLEAN}
        \cup {SymbolE(ReferenceT(AtomicT("float", TRUE, FALSE)))}

OptOperands == OptConsts \cup OptSymbols

OptCastTypes == {AtomicT(b, u, c) : b \in OptBasics, u \in BOOLEAN, c \in BOOLEAN}

\* The overload sets of rcp() the symbol table may hold: none, the two of
\* the standard library, one or three of the program's own, and two that
\* take no float
RcpSymbol(i, p, r) == Symbol("rcp", i, FunctionTypeWithDefaults(r, <<p>>, <<FALSE>>))

RcpUniform == RcpSymbol(1, AtomicT("float", TRUE, FALSE), AtomicT("float", TRUE, FALSE))

RcpVarying == RcpSymbol(2, AtomicT("float", FALSE, FALSE), AtomicT("float", FALSE, FALSE))

RcpStruct(i) == RcpSymbol(i, StructT("S", i = 3, FALSE), AtomicT("float", TRUE, FALSE))

StdlibRcp == <<RcpVarying, RcpUniform>>

RcpTables ==
    {<< >>, StdlibRcp, <<RcpUniform>>, <<RcpVarying, RcpUniform, RcpStruct(3)>>,
     <<RcpStruct(3), RcpStruct(4)>>}

\* The operands of the divisions tried with every overload set: the float
\* ones, and an int32 variable and constant
OptDivOperands ==
    {e \in OptOperands : IsFloat32(e.type) \/ IsKind(e.type, "reference")}
        \cup {SymbolE(AtomicT("int32", TRUE, FALSE)),
              ConstE(AtomicT("int32", TRUE, TRUE), <<One32>>)}

\* Every expression with the standard library in scope and fast-math off,
\* and the divisions with every overload set and either setting
OptInputs ==
    ({UnaryE(o, e) : o \in UnaryOps, e \in OptOperands}
        \cup {BinaryE(o, a, b) : o \in BinaryOps, a \in OptOperands, b \in OptOperands}
        \cup {TypeCastE(t, e) : t \in OptCastTypes, e \in OptOperands})
            \X {FALSE} \X {StdlibRcp}
    \cup {BinaryE("Div", a, b) : a \in OptDivOperands, b \in OptDivOperands}
            \X BOOLEAN \X RcpTables

\* No pass is under way.
OptIdle ==
    /\ optNode = NullExpr
    /\ optFastMath = FALSE
    /\ optPhase = "idle"
    /\ optChecked = NullExpr
    /\ optRet = NullExpr
    /\ optErrors = << >>
    /\ optWarnings = << >>

\* An expression as the parser built it, and the symbol table and options
\* it is compiled with
OptInit ==
    /\ \E x \in OptInputs :
          /\ optNode = x[1]
          /\ optFastMath = x[2]
          /\ functions = <<[n \in FuncNames \cup {"rcp"} |-> IF n = "rcp" THEN x[3] ELSE << >>]>>
    /\ variables = <<EmptyVarMap>>
    /\ types = <<EmptyTypeMap>>
    /\ op = "SymbolTable"
    /\ arg = NullSym
    /\ ret = TRUE
    /\ nErrors = 0
    /\ nWarnings = 0
    /\ optPhase = "parsed"
    /\ optChecked = NullExpr
    /\ optRet = NullExpr
    /\ optErrors = << >>
    /\ optWarnings = << >>

notOptVars == <<symVars, convVars, predVars, tcVars, gtVars, cmVars>>

IsTypeCastExpr(n) == "node" \in DOMAIN n /\ n.node = "typecast"

IsUnaryExpr(n) == "kind" \in DOMAIN n /\ n.kind = "unary"

IsBinaryExpr(n) == "kind" \in DOMAIN n /\ n.kind = "binary"

\* What a TypeCheck() with outcome c leaves behind
TypeChecked(c) ==
    /\ optPhase' = IF c.ret \in {NullExpr, Aborted} THEN "done" ELSE "checked"
    /\ optChecked' = c.ret
    /\ optRet' = IF c.ret = Aborted THEN Aborted ELSE NullExpr
    /\ optErrors' = c.errors
    /\ optWarnings' = c.warnings
    /\ UNCHANGED <<optNode, optFastMath, notOptVars, ovVars>>

\* What an Optimize() of node m with outcome o leaves behind
Optimized(m, o) ==
    /\ optPhase' = "done"
    /\ optChecked' = m
    /\ optRet' = o.ret
    /\ optErrors' = optErrors \o o.errors
    /\ optWarnings' = optWarnings \o o.warnings
    /\ UNCHANGED <<optNode, optFastMath, notOptVars>>

TypeCheckUnaryExpr ==
    /\ optPhase = "parsed"
    /\ IsUnaryExpr(optNode)
    /\ \E c \in {UnaryExprTypeCheck(optNode)} :
          TypeChecked(Outcome(CASE c.ret = "this" -> c.node
                                [] c.ret = "NULL" -> NullExpr
                                [] OTHER -> Aborted,
                              [i \in 1..Len(c.errors) |-> c.errors[i].msg], << >>))

TypeCheckBinaryExpr ==
    /\ optPhase = "parsed"
    /\ IsBinaryExpr(optNode)
    /\ \E c \in {BinaryExprTypeCheck(optNode)} : TypeChecked(c)

TypeCheckTypeCastExpr ==
    /\ optPhase = "parsed"
    /\ IsTypeCastExpr(optNode)
    /\ \E c \in {TypeCastExprTypeCheck(optNode)} : TypeChecked(c)

\* The global Optimize(Expr *) on a unary expression: its operand, then
\* UnaryExpr::Optimize
OptimizeUnaryExpr ==
    /\ optPhase = "checked"
    /\ IsUnaryExpr(optChecked)
    /\ \E e \in OptimizeOperand(optChecked.expr) :
          IF e = Aborted THEN Optimized(optChecked, Outcome(Aborted, << >>, << >>))
          ELSE \E r \in UnaryExprOptimize([optChecked EXCEPT !.expr = e]) :
                  Optimized([optChecked EXCEPT !.expr = e], Outcome(r, << >>, << >>))
    /\ UNCHANGED ovVars

OptimizeTypeCastExpr ==
    /\ optPhase = "checked"
    /\ IsTypeCastExpr(optChecked)
    /\ \E r \in TypeCastExprOptimize(optChecked) :
          Optimized(optChecked, Outcome(r, << >>, << >>))
    /\ UNCHANGED ovVars

\* The global Optimize(Expr *) on a binary expression: its operands, then
\* BinaryExpr::Optimize, up to its return or to the FunctionSymbolExpr it
\* builds for rcp()
OptimizeBinaryExpr ==
    /\ optPhase = "checked"
    /\ IsBinaryExpr(optChecked)
    /\ \E m \in OptimizeOperands(optChecked) :
          \E rcpFuns \in {LookupFunctionMatches(functions, "rcp")} :
            IF m = Aborted
            THEN Optimized(optChecked, Outcome(Aborted, << >>, << >>)) /\ UNCHANGED ovVars
            ELSE IF lCallsRcp(m, optFastMath, rcpFuns)
            THEN /\ optPhase' = "rcp"
                 /\ optChecked' = m
                 /\ name' = <<"r", "c", "p">>
                 /\ candidateFunctions' = rcpFuns
                 /\ matchingFunc' = IF Len(rcpFuns) = 1 THEN rcpFuns[1] ELSE NullSym
                 /\ triedToResolve' = FALSE
                 /\ UNCHANGED <<optNode, optFastMath, optRet, optErrors, optWarnings,
                                notOptVars, argTypes, argCouldBeNULL, tier, oRet, oErrors,
                                tried>>
            ELSE /\ \E o \in BinaryExprOptimize(m, optFastMath, rcpFuns) : Optimized(m, o)
                 /\ UNCHANGED ovVars

\* BinaryExpr::Optimize from the type check of the call of rcp() on
TypeCheckRcpCall ==
    /\ optPhase = "rcp"
    /\ \E c \in {FunctionCallExprTypeCheck(RcpCall(optChecked))} :
          /\ \E o \in lRcpProduct(optChecked, c) : Optimized(optChecked, o)
          /\ matchingFunc' = c.matchingFunc
          /\ triedToResolve' = c.triedToResolve
    /\ UNCHANGED <<name, candidateFunctions, argTypes, argCouldBeNULL, tier, oRet, oErrors,
                   tried>>

OptNext ==
    \/ TypeCheckUnaryExpr
    \/ TypeCheckBinaryExpr
    \/ TypeCheckTypeCastExpr
    \/ OptimizeUnaryExpr
    \/ OptimizeBinaryExpr
    \/ OptimizeTypeCastExpr
    \/ TypeCheckRcpCall

---------------------------------------------------------------------------
(* Near-miss suggestions (sym.cpp) *)

maxDelta == 2

MaxStrLen == 3

\* The characters of a name of this model
NameChars(n) == IF n = "xy" THEN <<"x", "y">> ELSE <<n>>

Min3(a, b, c) == IF a <= b /\ a <= c THEN a ELSE IF b <= c THEN b ELSE c

\* The Levenshtein distance of two strings
RECURSIVE EditDistance(_, _)
EditDistance(a, b) ==
    IF a = << >> THEN Len(b)
    ELSE IF b = << >> THEN Len(a)
    ELSE Min3(EditDistance(Tail(a), b) + 1,
              EditDistance(a, Tail(b)) + 1,
              EditDistance(Tail(a), Tail(b)) + (IF Head(a) = Head(b) THEN 0 ELSE 1))

\* StringEditDistance(str1, str2, maxEdits) of util.cpp, which has only to
\* tell the distances up to maxEdits apart
StringEditDistance(str1, str2, maxEdits) ==
    IF EditDistance(str1, str2) < maxEdits THEN EditDistance(str1, str2) ELSE maxEdits

RECURSIVE Flatten(_)
Flatten(ss) == IF ss = << >> THEN << >> ELSE Head(ss) \o Flatten(Tail(ss))

\* The keys of the maps of this model in the order a std::map iterates
CmVarOrder == <<"x", "y">>

CmFuncOrder == <<"f", "xy">>

CmTypeOrder == <<"T">>

\* The names std::vector::push_back is tried on, in its order: every scope
\* from the outermost, every entry of its map
VariableNames(vs) ==
    Flatten([i \in 1..Len(vs) |-> SelectSeq(CmVarOrder, LAMBDA n : vs[i][n] # NullSym)])

FunctionNames(fns) ==
    Flatten([i \in 1..Len(fns) |-> SelectSeq(CmFuncOrder, LAMBDA n : fns[i][n] # << >>)])

\* closestTypeMatch skips the enum types when structsVsEnums is set, every
\* other type when it is not
TypeNamesTried(ts, structsVsEnums) ==
    Flatten([i \in 1..Len(ts) |->
                SelectSeq(CmTypeOrder,
                          LAMBDA n : ts[i][n] # NullType
                                        /\ IsKind(ts[i][n], "enum") # structsVsEnums)])

\* matches[dist].push_back(name) for every name with dist <= maxDelta
MatchesOf(names, str) ==
    [d \in 0..maxDelta |->
        SelectSeq(names, LAMBDA n : StringEditDistance(str, NameChars(n), maxDelta + 1) = d)]

\* An answer that is the last non-empty entry of matches[]
LastNonEmpty(matches) ==
    LET ds == {d \in DOMAIN matches : matches[d] # << >>}
    IN  IF ds = {} THEN << >> ELSE matches[CHOOSE d \in ds : \A e \in ds : e <= d]

\* "return the first entry of matches[] that is non-empty, if any"
FirstNonEmpty(matches) ==
    LET ds == {d \in DOMAIN matches : matches[d] # << >>}
    IN  IF ds = {} THEN << >> ELSE matches[CHOOSE d \in ds : \A e \in ds : d <= e]

ClosestVariableOrFunctionMatchResult(vs, fns, str) ==
    FirstNonEmpty(MatchesOf(VariableNames(vs) \o FunctionNames(fns), str))

closestTypeMatch(ts, str, structsVsEnums) ==
    FirstNonEmpty(MatchesOf(TypeNamesTried(ts, structsVsEnums), str))

\* The strings asked about
CmAlphabet == {"x", "y", "T"}

CmStrings == UNION {[1..n -> CmAlphabet] : n \in 0..MaxStrLen}

\* The scopes a symbol table is made of
CmVarMaps == {[n \in {"x", "y"} |-> IF n \in s THEN Symbol(n, i, AtomicT("int32", TRUE, FALSE))
                                    ELSE NullSym] : s \in SUBSET {"x", "y"}, i \in {1}}

CmFuncMaps ==
    {[n \in {"f", "xy"} |-> IF n \in s THEN <<Symbol(n, 1, FuncTypeInt)>> ELSE << >>] :
        s \in SUBSET {"f", "xy"}}

CmTypeMaps ==
    {[n \in {"T"} |-> t] : t \in {NullType, StructT("T", TRUE, FALSE), EnumT("T", TRUE, FALSE)}}

\* No near-miss query has been made.
CmIdle ==
    /\ cmOp = "idle"
    /\ cmStr = << >>
    /\ cmRet = << >>

\* A symbol table of one or two scopes
CmInit ==
    /\ \E depth \in {1, 2} :
          /\ variables \in [1..depth -> CmVarMaps]
          /\ functions \in [1..depth -> CmFuncMaps]
          /\ types \in [1..depth -> CmTypeMaps]
          /\ depth > 1 => /\ functions[depth] = [n \in {"f", "xy"} |-> << >>]
                          /\ variables[depth]["y"] = NullSym
    /\ op = "SymbolTable"
    /\ arg = NullSym
    /\ ret = TRUE
    /\ nErrors = 0
    /\ nWarnings = 0
    /\ CmIdle

notCmVars == <<symVars, convVars, ovVars, predVars, tcVars, gtVars, optVars>>

ClosestVariableOrFunctionMatch ==
    \E str \in CmStrings :
        /\ cmOp = "idle"
        /\ cmOp' = "ClosestVariableOrFunctionMatch"
        /\ cmStr' = str
        /\ cmRet' = ClosestVariableOrFunctionMatchResult(variables, functions, str)
        /\ UNCHANGED notCmVars

ClosestTypeMatch ==
    \E str \in CmStrings :
        /\ cmOp = "idle"
        /\ cmOp' = "ClosestTypeMatch"
        /\ cmStr' = str
        /\ cmRet' = closestTypeMatch(types, str, TRUE)
        /\ UNCHANGED notCmVars

ClosestEnumTypeMatch ==
    \E str \in CmStrings :
        /\ cmOp = "idle"
        /\ cmOp' = "ClosestEnumTypeMatch"
        /\ cmStr' = str
        /\ cmRet' = closestTypeMatch(types, str, FALSE)
        /\ UNCHANGED notCmVars

CmNext ==
    \/ ClosestVariableOrFunctionMatch
    \/ ClosestTypeMatch
    \/ ClosestEnumTypeMatch

---------------------------------------------------------------------------
(* Specifications *)

\* The symbol table under any sequence of its operations
SymSpecInit ==
    /\ SymInit
    /\ ConvIdle
    /\ OvIdle
    /\ PredIdle
    /\ TcIdle
    /\ GtIdle
    /\ OptIdle
    /\ CmIdle

SymSpec == SymSpecInit /\ [][SymNext]_vars

\* One conversion of any expression to any type
ConvSpecInit ==
    /\ ConvInit
    /\ SymInit
    /\ OvIdle
    /\ PredIdle
    /\ TcIdle
    /\ GtIdle
    /\ OptIdle
    /\ CmIdle

ConvSpec == ConvSpecInit /\ [][ConvNext]_vars

\* One resolution of any call against any overload set
OvSpecInit ==
    /\ OvInit
    /\ SymInit
    /\ ConvIdle
    /\ PredIdle
    /\ TcIdle
    /\ GtIdle
    /\ OptIdle
    /\ CmIdle

OvSpec == OvSpecInit /\ [][OvNext]_vars

\* One call of any overload predicate on any pair of types
PredSpecInit ==
    /\ PredInit
    /\ SymInit
    /\ ConvIdle
    /\ OvIdle
    /\ TcIdle
    /\ GtIdle
    /\ OptIdle
    /\ CmIdle

PredSpec == PredSpecInit /\ [][PredNext]_vars

\* One type check of any unary, assignment or call expression
TcSpecInit ==
    /\ TcInit
    /\ SymInit
    /\ ConvIdle
    /\ PredIdle
    /\ GtIdle
    /\ OptIdle
    /\ CmIdle

TcSpec == TcSpecInit /\ [][TcNext]_vars

\* One call of GetType() on any index or dereference expression
GtSpecInit ==
    /\ GtInit
    /\ SymInit
    /\ ConvIdle
    /\ OvIdle
    /\ PredIdle
    /\ TcIdle
    /\ OptIdle
    /\ CmIdle

GtSpec == GtSpecInit /\ [][GtNext]_vars

\* The type check and the optimization of any unary, binary or type-cast
\* expression
OptSpecInit ==
    /\ OptInit
    /\ ConvIdle
    /\ OvIdle
    /\ PredIdle
    /\ TcIdle
    /\ GtIdle
    /\ CmIdle

OptSpec == OptSpecInit /\ [][OptNext]_vars

\* One near-miss query on any symbol table
CmSpecInit ==
    /\ CmInit
    /\ ConvIdle
    /\ OvIdle
    /\ PredIdle
    /\ TcIdle
    /\ GtIdle
    /\ OptIdle

CmSpec == CmSpecInit /\ [][CmNext]_vars

---------------------------------------------------------------------------
(* Claims about implicit conversion, checked under ConvSpec *)

cFrom == GetType(cExpr)

VaryingMsg == "Can't convert from varying type to uniform type"

ArrayDecay == IsKind(cFrom, "array") /\ IsKind(cTo, "pointer")

\* A call of either entry point has returned.
Converted == cCall \in {"TypeConvertExpr", "CanConvertTypes", "CanConvertTypesMsg"}

\* The call refused the conversion for going from varying to uniform.
RefusedAsVarying ==
    /\ cCall = "TypeConvertExpr" =>
          cResult.expr = NullExpr /\ cResult.errors = <<VaryingMsg>>
    /\ cCall = "CanConvertTypesMsg" => ~cResult.ok /\ cResult.errors = <<VaryingMsg>>
    /\ cCall = "CanConvertTypes" => ~cResult.ok /\ cResult.errors = << >>

\* The call accepted the conversion and reported nothing.
Accepted ==
    /\ cResult.ok
    /\ cResult.errors = << >>
    /\ ~cResult.abort
    /\ cCall = "TypeConvertExpr" => cResult.expr # NullExpr

\* C6 as stated: every conversion from a varying type to a uniform type other
\* than the array to pointer decay is refused with the varying to uniform
\* error, and every conversion from a uniform type to its varying form is
\* accepted.
C6_AsStated ==
    Converted =>
        /\ (IsVaryingType(cFrom) /\ IsUniformType(cTo) /\ ~ArrayDecay) => RefusedAsVarying
        /\ (IsUniformType(cFrom) /\ cTo = GetAsVaryingType(cFrom) /\ cTo # cFrom) => Accepted

\* C6 amended: a conversion from a varying type to a uniform type other than
\* void (and other than the array to pointer decay) is refused, CanConvertTypes
\* returning false and TypeConvertExpr NULL after the one error "Can't convert
\* from varying type ... to uniform type"; to void it is refused too, with the
\* one error "Can't convert type ... to void"; the conversion of a uniform
\* type that is no array to its varying form is accepted, and that of a
\* uniform array to the varying array is refused with one error.
C6_NoVaryingToUniform ==
    Converted =>
        /\ (IsVaryingType(cFrom) /\ IsUniformType(cTo) /\ ~ArrayDecay /\ cTo # Void)
              => RefusedAsVarying
        /\ (IsVaryingType(cFrom) /\ cTo = Void) =>
              /\ ~cResult.ok
              /\ cCall = "TypeConvertExpr" => cResult.expr = NullExpr
              /\ cCall # "CanConvertTypes" => cResult.errors = <<"Can't convert type to void">>
        /\ (IsUniformType(cFrom) /\ cTo = GetAsVaryingType(cFrom) /\ cTo # cFrom) =>
              IF IsKind(cFrom, "array")
              THEN /\ ~cResult.ok
                   /\ cCall # "CanConvertTypes" =>
                         cResult.errors = <<"Array type can't be converted">>
              ELSE Accepted

\* TypeConvertExpr has refused to convert a varying enum to the uniform enum.
C6_Witness ==
    /\ cCall = "TypeConvertExpr"
    /\ cFrom = EnumT("E", FALSE, FALSE)
    /\ cTo = EnumT("E", TRUE, FALSE)
    /\ cResult.expr = NullExpr
    /\ cResult.errors = <<VaryingMsg>>

\* C7: TypeConvertExpr either returns an expression and reports no error, or
\* returns NULL after exactly one error.
C7_Totality ==
    cCall = "TypeConvertExpr" =>
        \/ cResult.expr # NullExpr /\ cResult.errors = << >> /\ ~cResult.abort
        \/ cResult.expr = NullExpr /\ Len(cResult.errors) = 1 /\ ~cResult.abort

\* TypeConvertExpr was given an enum value for a struct and the Assert
\* "toAtomicType != NULL || toVectorType != NULL" failed.
C7_EnumAssert ==
    /\ cCall = "TypeConvertExpr"
    /\ cFrom = EnumT("E", TRUE, FALSE)
    /\ cTo = StructT("S", TRUE, FALSE)
    /\ cResult.abort

\* Every call of TypeConvertExpr that is neither a silent success nor a
\* failure with one error is a failed Assert on an enum source.
C7_OnlyEnumAssert ==
    ~C7_Totality => cResult.abort /\ IsKind(cFrom, "enum")

\* C8 as stated: the expression TypeConvertExpr returns has a type Equal to
\* the target type.
C8_AsStated ==
    (cCall = "TypeConvertExpr" /\ cResult.expr # NullExpr) =>
        Equal(GetType(cResult.expr), cTo)

\* The type the pointer cases see: the type of the expression, or what it
\* refers to when a reference is converted to a type that is no reference.
cFromPointer ==
    IF IsKind(cFrom, "reference") /\ ~IsKind(cTo, "reference")
    THEN GetReferenceTarget(cFrom) ELSE cFrom

\* The accepted pointer conversions that insert no cast: between two pointer
\* types of one variability that are not Equal, the target no void pointer and
\* the source no null pointer literal, whose pointed-to types are equal or
\* differ by the const the target adds.
UncastPointerConv ==
    /\ IsKind(cFromPointer, "pointer") /\ IsKind(cTo, "pointer")
    /\ ~Equal(cFromPointer, cTo)
    /\ IsUniformType(cFromPointer) = IsUniformType(cTo)
    /\ ~IsVoidPointer(cTo)
    /\ cExpr.node # "null"
    /\ \/ Equal(GetBaseType(cFromPointer), GetBaseType(cTo))
       \/ Equal(GetAsConstType(GetBaseType(cFromPointer)), GetBaseType(cTo))

\* C8 amended: the expression TypeConvertExpr returns has a type Equal to the
\* target type, except for a pointer to pointer conversion of one variability
\* between pointed-to types that are equal or differ by an added const: that
\* one inserts no TypeCastExpr and returns the expression (dereferenced if it
\* was a reference to the pointer) with the source pointer type.
C8_CastToTarget ==
    (cCall = "TypeConvertExpr" /\ cResult.expr # NullExpr) =>
        IF UncastPointerConv
        THEN /\ cResult.expr \in {cExpr, DereferenceE(cExpr)}
             /\ Equal(GetType(cResult.expr), cFromPointer)
        ELSE Equal(GetType(cResult.expr), cTo)

\* An int pointer was converted to a pointer to const int and came back as it was.
C8_Witness ==
    /\ cCall = "TypeConvertExpr"
    /\ cFrom = PointerT(Int32U, TRUE, FALSE)
    /\ cTo = PointerT(Int32UC, TRUE, FALSE)
    /\ cResult.expr = cExpr

\* Both types are atomic and differ.
AtomicToAtomic ==
    /\ IsKind(cFrom, "atomic") /\ IsKind(cTo, "atomic")
    /\ ~Equal(cFrom, cTo)

---------------------------------------------------------------------------
(* Claims about overload resolution, checked under OvSpec *)

\* No argument of the call lacks a type or is a function.
ArgsTyped ==
    \A i \in 1..Len(argTypes) : argTypes[i] # NullType /\ ~IsKind(argTypes[i], "function")

\* Predicate k accepts argument i for the parameter i of ft, as it is or as
\* the null pointer it may be.
ArgQualifies(k, ft, i) ==
    \/ matchFunc(k, argTypes[i], GetParameterType(ft, i)) # -1
    \/ CouldBeNULL(argCouldBeNULL, i) /\ IsKind(GetParameterType(ft, i), "pointer")

\* The candidate qualifies at tier k: it takes the arguments passed, has
\* defaults for the parameters left, and predicate k accepts every argument.
Qualifies(k, sym) ==
    /\ ArgsTyped
    /\ Len(argTypes) <= GetNumParameters(sym.type)
    /\ \A i \in 1..Len(argTypes) : ArgQualifies(k, sym.type, i)
    /\ \/ Len(argTypes) = GetNumParameters(sym.type)
       \/ HasParameterDefault(sym.type, Len(argTypes) + 1)

Qualifiers(k) ==
    {c \in 1..Len(candidateFunctions) : Qualifies(k, candidateFunctions[c])}

\* The cost of a qualifying candidate at tier k: each argument costs 0 or 1.
CostAt(k, c) ==
    Cardinality({i \in 1..Len(argTypes) :
        matchFunc(k, argTypes[i], GetParameterType(candidateFunctions[c].type, i)) = 1})

\* The qualifying candidates of the lowest cost at tier k
Cheapest(k) ==
    {c \in Qualifiers(k) : \A d \in Qualifiers(k) : CostAt(k, c) <= CostAt(k, d)}

AmbiguityReported == \E i \in 1..Len(oErrors) :
    oErrors[i] = "Multiple overloaded instances of function matched"

\* C10: tryResolve is called with the six predicates in the order exact match,
\* ignore references, widen, uniform to varying, conversion at equal
\* variability, any conversion; a predicate is tried only if no candidate
\* qualified under each predicate before it; and when the first predicate under
\* which a candidate qualifies leaves several candidates at the lowest cost, the
\* ambiguity error is reported, ResolveOverloads returns and no later
\* predicate is tried, while a single cheapest candidate becomes matchingFunc.
C10_TierOrder ==
    /\ \A i \in 1..Len(tried) :
          /\ tried[i].tier = i
          /\ \A j \in 1..(i - 1) : Qualifiers(j) = {}
    /\ \A i \in 1..Len(tried) :
          (tried[i].ret # "abort" /\ Qualifiers(i) # {}) =>
              /\ i = Len(tried)
              /\ oRet = "true"
              /\ IF Cardinality(Cheapest(i)) > 1
                 THEN AmbiguityReported /\ matchingFunc = NullSym
                 ELSE /\ ~AmbiguityReported
                      /\ \A c \in Cheapest(i) : matchingFunc = candidateFunctions[c]
    /\ oRet = "false" =>
          /\ Len(tried) = IF exactMatchOnly THEN 1 ELSE 6
          /\ \A i \in 1..Len(tried) : Qualifiers(i) = {}

\* The widening predicate, the third tried, found two candidates tied at the
\* lowest cost: the ambiguity error was reported and the resolution stopped.
C10_Witness ==
    /\ Len(tried) = 3
    /\ tried[3].tier = 3
    /\ Cardinality(Cheapest(3)) = 2
    /\ AmbiguityReported
    /\ oRet = "true"
    /\ matchingFunc = NullSym

\* ResolveOverloads is over: it returned, or the compiler stopped in it.
Resolved == oRet \in {"true", "false", "abort"}

NoMatchReported == \E i \in 1..Len(oErrors) :
    oErrors[i] = "Unable to find matching overload for call to function"

\* The symbol bound is the one qualifying candidate of the deciding tier whose
\* cost is below that of every other qualifying candidate.
BoundIsCheapest ==
    (oRet = "true" /\ matchingFunc # NullSym) =>
        \E c \in Qualifiers(Len(tried)) :
            /\ matchingFunc = candidateFunctions[c]
            /\ \A d \in Qualifiers(Len(tried)) \ {c} :
                  CostAt(Len(tried), c) < CostAt(Len(tried), d)

\* C11: the symbol bound is the one qualifying candidate of the deciding tier
\* of strictly lowest summed cost, an argument that could be a null pointer
\* counting 0 against a pointer parameter; and when no candidate qualifies at
\* any tier the resolution reports the no-matching-overload error and returns
\* false.
C11_CheapestOrFail ==
    /\ BoundIsCheapest
    /\ (Resolved /\ \A k \in 1..6 : Qualifiers(k) = {}) =>
          oRet = "false" /\ NoMatchReported

\* The resolution of f(enum E) against the one candidate f(struct S), which
\* qualifies at no tier, stopped the compiler in the fifth predicate.
C11_AssertInResolution ==
    /\ argTypes = <<EnumT("E", TRUE, FALSE)>>
    /\ Len(candidateFunctions) = 1
    /\ candidateFunctions[1].type = Function1(StructT("S", TRUE, FALSE))
    /\ oRet = "abort"
    /\ Len(tried) = 5

\* Apart from the runs in which the compiler stops, C11 holds: a run that
\* ends with no candidate qualifying at any tier returns false after the
\* no-matching-overload error.
C11_UnlessAborted ==
    /\ BoundIsCheapest
    /\ (Resolved /\ oRet # "abort" /\ \A k \in 1..6 : Qualifiers(k) = {}) =>
          oRet = "false" /\ NoMatchReported

\* The function type takes the arguments of the call: there are no more of
\* them than parameters, and every parameter left without one has a default.
ArityFits(ft) ==
    /\ Len(argTypes) <= Len(ft.params)
    /\ \A i \in (Len(argTypes) + 1)..Len(ft.params) : ft.defaults[i]

\* C12: every candidate tryResolve counts as a match, and so the symbol a
\* resolution binds, takes no fewer parameters than there are arguments and
\* has a default for every parameter that receives none.
C12_ArityCompatible ==
    /\ \A i \in 1..Len(tried) : \A m \in 1..Len(tried[i].matches) :
          ArityFits(tried[i].matches[m].sym.type)
    /\ (oRet = "true" /\ matchingFunc # NullSym) => ArityFits(matchingFunc.type)

\* f(int32, float = default) was bound for one int32 argument, while the other
\* candidate f(int32, int64), whose second parameter has no default, was not.
C12_Witness ==
    /\ oRet = "true"
    /\ argTypes = <<Int32U>>
    /\ matchingFunc.type = Function2(Int32U, FloatU, TRUE)
    /\ \E c \in 1..Len(candidateFunctions) :
          candidateFunctions[c].type = Function2(Int32U, Int64U, FALSE)

\* The call f((int16)3) against the candidates f(float) and f(int64), in
\* either order, has been resolved.
Int16Example ==
    /\ Resolved
    /\ ~exactMatchOnly
    /\ argTypes = <<Int16U>>
    /\ argCouldBeNULL = <<FALSE>>
    /\ {candidateFunctions[c].type : c \in 1..Len(candidateFunctions)}
          = {Function1(FloatU), Function1(Int64U)}

\* C14: with the candidates f(float) and f(int64) and one int16 argument, the
\* exact and the ignore-references predicates find no match and the widening
\* predicate then binds f(int64) without an ambiguity error.
C14_Int16PicksInt64 ==
    Int16Example =>
        /\ Len(tried) = 3
        /\ tried[1].matches = << >> /\ tried[2].matches = << >>
        /\ oRet = "true"
        /\ matchingFunc.type = Function1(Int64U)
        /\ oErrors = << >>

\* The widening predicate matched both f(float) and f(int64) at cost 1 for the
\* int16 argument, and the resolution ended with the ambiguity error and no
\* function bound.
C14_Ambiguous ==
    /\ Int16Example
    /\ Len(tried) = 3
    /\ Len(tried[3].matches) = 2
    /\ \A m \in 1..2 : tried[3].matches[m].cost = 1
    /\ AmbiguityReported
    /\ matchingFunc = NullSym

\* C15: for a name that begins with two underscores only the exact-match
\* predicate is tried: when no candidate qualifies under it, exactly as typed
\* or by the null-pointer allowance, the resolution returns false with the
\* no-matching-overload error and no function bound by a later predicate, even
\* when a candidate qualifies under one of the predicates 2 to 6.
C15_ExactMatchOnly ==
    (exactMatchOnly /\ Resolved /\ Qualifiers(1) = {}) =>
        /\ oRet = "false"
        /\ NoMatchReported
        /\ ~AmbiguityReported
        /\ Len(tried) = 1 /\ tried[1].tier = 1 /\ tried[1].matches = << >>

\* The resolution of a name with two leading underscores failed although a
\* candidate qualifies under a later predicate.
C15_Witness ==
    /\ exactMatchOnly
    /\ oRet = "false"
    /\ Qualifiers(1) = {}
    /\ \E k \in 2..6 : Qualifiers(k) # {}
    /\ NoMatchReported

\* C16: ResolveOverloads returns true exactly when it has bound matchingFunc
\* to one candidate: a return of true leaves GetMatchingFunction() non-NULL,
\* and a call that is ambiguous or has no match returns false and leaves
\* GetMatchingFunction() NULL.
C16_TrueIffBound ==
    /\ oRet = "true" => matchingFunc # NullSym
    /\ (oRet \in {"true", "false"} /\ (AmbiguityReported \/ NoMatchReported)) =>
          oRet = "false" /\ matchingFunc = NullSym

\* An ambiguous call: ResolveOverloads returned true with no function bound.
C16_TrueWhenAmbiguous ==
    /\ oRet = "true"
    /\ AmbiguityReported
    /\ matchingFunc = NullSym

\* A call with no match on a name with one candidate: ResolveOverloads
\* returned false and GetMatchingFunction() is still the candidate the
\* constructor stored.
C16_FalseButBound ==
    /\ oRet = "false"
    /\ NoMatchReported
    /\ Len(candidateFunctions) = 1
    /\ matchingFunc = candidateFunctions[1]

\* What holds of the return value: without an ambiguity a return of true has
\* bound one candidate that qualifies under the predicate tried last, and a
\* return of false follows the no-matching-overload error.
C16_TrueBindsUnlessAmbiguous ==
    /\ (oRet = "true" /\ ~AmbiguityReported) =>
          \E c \in Qualifiers(Len(tried)) : matchingFunc = candidateFunctions[c]
    /\ oRet = "false" => NoMatchReported

---------------------------------------------------------------------------
(* Claims about the overload predicates, checked under PredSpec *)

SignedInts == {"int8", "int16", "int32", "int64"}

UnsignedInts == {"uint8", "uint16", "uint32", "uint64"}

\* lMatchWithTypeWidening was applied to two atomic types of different basic
\* types, neither void nor const, and of one variability.
WidenedAtomics ==
    /\ pPred = 3
    /\ IsKind(pCallType, "atomic") /\ IsKind(pFuncArgType, "atomic")
    /\ pCallType # Void /\ pFuncArgType # Void
    /\ ~IsConstType(pCallType) /\ ~IsConstType(pFuncArgType)
    /\ pCallType.basic # pFuncArgType.basic
    /\ IsUniformType(pCallType) = IsUniformType(pFuncArgType)

\* The pair of basic types lMatchWithTypeWidening was applied to
Widened(from, to) ==
    WidenedAtomics /\ pCallType.basic = from /\ pFuncArgType.basic = to

\* The widening predicate accepts int8->int16, int32->int64, float->double and
\* bool->any numeric type, and rejects double->float.
WideningAccepts ==
    /\ (Widened("int8", "int16") \/ Widened("int32", "int64") \/ Widened("float", "double"))
          => pCost.cost = 1
    /\ (WidenedAtomics /\ pCallType.basic = "bool") => pCost.cost = 1
    /\ Widened("double", "float") => pCost.cost = -1

\* C13: on two distinct atomic types of one variability the widening predicate
\* accepts int8->int16, int32->int64, float->double and bool->any numeric
\* type, and rejects every conversion of a signed integer to an unsigned one
\* or back, and double->float.
C13_WideningTable ==
    /\ WideningAccepts
    /\ (/\ WidenedAtomics
        /\ \/ pCallType.basic \in SignedInts /\ pFuncArgType.basic \in UnsignedInts
           \/ pCallType.basic \in UnsignedInts /\ pFuncArgType.basic \in SignedInts)
          => pCost.cost = -1

\* lMatchWithTypeWidening accepted uint8 -> int8 at cost 1.
C13_SignChangeAccepted ==
    /\ Widened("uint8", "int8")
    /\ pCost = [cost |-> 1, abort |-> FALSE]

\* The last predicate, lMatchWithTypeConv, accepted the argument, which no
\* earlier predicate accepts: it matches only through a conversion that
\* changes its variability.
MatchedByArbitraryConv ==
    /\ pPred = 6
    /\ ~pCost.abort
    /\ pCost.cost # -1
    /\ ~lMatchAborts(5, pCallType, pFuncArgType)
    /\ matchFunc(5, pCallType, pFuncArgType) = -1

\* The parameter types t the same argument matches under the last predicate
\* by what an earlier predicate accepts: reference stripping, widening,
\* uniform to varying, or a conversion at the same variability.
WeakerMatches ==
    {t \in PredTypes \ {Void} :
        /\ ~lMatchAborts(6, pCallType, t)
        /\ matchFunc(5, pCallType, t) # -1}

\* C28: under the last predicate an argument that matches only through an
\* arbitrary, variability-changing conversion never costs less than the same
\* argument costs against a parameter it matches by reference stripping,
\* widening, uniform to varying or a conversion at the same variability.
C28_CostMonotone ==
    MatchedByArbitraryConv =>
        \A t \in WeakerMatches : pCost.cost >= matchFunc(6, pCallType, t)

\* A uniform int32 argument costs 0 against a varying float parameter under
\* the last predicate, and 1 against a uniform int64 one, which widening
\* accepts.
C28_ArbitraryCostsLess ==
    /\ MatchedByArbitraryConv
    /\ pCallType = AtomicT("int32", TRUE, FALSE)
    /\ pFuncArgType = AtomicT("float", FALSE, FALSE)
    /\ pCost.cost = 0
    /\ matchFunc(6, pCallType, AtomicT("int64", TRUE, FALSE)) = 1

\* What holds of the last predicate: it gives an argument the cost the
\* predicate before it gives, and 0 to what only it accepts.
C28_LastTierCosts ==
    (pPred = 6 /\ ~pCost.abort) =>
        IF matchFunc(5, pCallType, pFuncArgType) # -1
        THEN pCost.cost = matchFunc(5, pCallType, pFuncArgType)
        ELSE pCost.cost \in {0, -1}

---------------------------------------------------------------------------
(* Claims about type checking, checked under TcSpec *)

\* TypeCheck() has returned.
TcReturned == tcRet \in {"NULL", "this"}

TcReported(m) == \E i \in 1..Len(tcErrors) : tcErrors[i].msg = m

LaunchIllegal == "launch expression illegal with non-task-qualified function"

LaunchNeeded == "launch expression needed to call function with task qualifier"

\* C17: a TypeCheck() that reports an Error returns NULL; so does
\* FunctionCallExpr::TypeCheck when launch is used with a function that is not
\* task-qualified and when a task-qualified function is called without launch.
C17_ErrorReturnsNull ==
    /\ (TcReturned /\ tcErrors # << >>) => tcRet = "NULL"
    /\ (TcReturned /\ (TcReported(LaunchIllegal) \/ TcReported(LaunchNeeded))) =>
          tcRet = "NULL"

\* "launch" on a function that is not task-qualified: the error was reported
\* and FunctionCallExpr::TypeCheck returned the call node.
C17_LaunchOnNonTask ==
    /\ tcNode.kind = "call"
    /\ tcNode.isLaunch
    /\ matchingFunc # NullSym /\ ~isTask(matchingFunc.type)
    /\ TcReported(LaunchIllegal)
    /\ tcRet = "this"

\* A task-qualified function called without launch: the error was reported
\* and NULL returned.
C17_TaskWithoutLaunch ==
    /\ tcNode.kind = "call"
    /\ ~tcNode.isLaunch
    /\ matchingFunc # NullSym /\ isTask(matchingFunc.type)
    /\ TcReported(LaunchNeeded)
    /\ tcRet = "NULL"

\* The launch on a function that is not task-qualified is the one error after
\* which a node is returned; a task-qualified function called without launch
\* gives NULL.
C17_ExceptLaunchOnNonTask ==
    /\ (TcReturned /\ tcErrors # << >> /\ ~TcReported(LaunchIllegal)) => tcRet = "NULL"
    /\ (TcReturned /\ TcReported(LaunchNeeded)) => tcRet = "NULL"
    /\ (TcReturned /\ TcReported(LaunchIllegal)) => tcRet = "this"

Ambiguous == "Multiple overloaded instances of function matched"

NoMatch == "Unable to find matching overload for call to function"

\* The messages of the Error() calls ResolveOverloads makes
ResolveOverloadsMsgs == {Ambiguous, NoMatch, "Candidate function:", "Passed types"}

\* ResolveOverloads reported a failure during the type check.
ResolutionFailureReported == TcReported(Ambiguous) \/ TcReported(NoMatch)

\* Only ResolveOverloads made Error() calls.
NothingReportedAgain == \A i \in 1..Len(tcErrors) : tcErrors[i].msg \in ResolveOverloadsMsgs

\* C18: when ResolveOverloads has reported an ambiguity or the lack of a
\* matching overload, the FunctionCallExpr::TypeCheck or AssignExpr::TypeCheck
\* that called it returns NULL and makes no further Error() call.
C18_NotReportedAgain ==
    (TcReturned /\ ResolutionFailureReported) =>
        tcRet = "NULL" /\ NothingReportedAgain

\* A call that is ambiguous: after the ambiguity error
\* FunctionCallExpr::TypeCheck reported that no valid function name is used.
C18_CallReportsAmbiguityAgain ==
    /\ tcNode.kind = "call"
    /\ tcRet = "NULL"
    /\ TcReported(Ambiguous)
    /\ TcReported("Valid function name must be used for function call")

\* A function symbol assigned to a function pointer none of the candidates
\* matches: after the no-match error AssignExpr::TypeCheck reported its own.
C18_AssignReportsNoMatchAgain ==
    /\ tcNode.kind = "assign"
    /\ tcRet = "NULL"
    /\ TcReported(NoMatch)
    /\ TcReported("Unable to find overloaded function for function pointer assignment")

\* What holds: NULL is returned after either failure, and a call with no
\* match is not reported again.
C18_NullAndCallWithNoMatch ==
    (TcReturned /\ ResolutionFailureReported) =>
        /\ tcRet = "NULL"
        /\ (tcNode.kind = "call" /\ TcReported(NoMatch)) => NothingReportedAgain

\* A call with no match returned NULL with the errors of ResolveOverloads only.
C18_CallWithNoMatch ==
    /\ tcNode.kind = "call"
    /\ tcRet = "NULL"
    /\ TcReported(NoMatch)
    /\ NothingReportedAgain

\* The type of the left-hand side of the assignment checked, as
\* AssignExpr::TypeCheck takes it (dereferenced when it is a reference)
lhsType == GetType(Dereferenced(tcNode.lvalue))

\* The node checked writes to an l-value of const type.
AssignsToConst ==
    tcNode.kind = "assign" /\ tcNode.lvalue # NullExpr /\ IsConstType(lhsType)

IncDecOfConst ==
    /\ tcNode.kind = "unary" /\ tcNode.op \in IncDecOps
    /\ tcNode.expr # NullExpr /\ IsConstType(GetType(tcNode.expr))

\* C19, as stated: an assignment with any operator and a pre/post
\* increment/decrement whose left-hand side is of const type return NULL with
\* the "Can't assign to type" error, and never a checked node.
C19_AsStated ==
    (TcReturned /\ (AssignsToConst \/ IncDecOfConst)) =>
        tcRet = "NULL" /\ TcReported(CantAssign)

\* The checks AssignExpr::TypeCheck makes before the one for const have
\* passed: both operands are there, a function symbol on the right was
\* resolved and the right-hand side converted, the left-hand side has a base
\* symbol, is no array and, as a pointer, takes the operator.
EarlierChecksPassed ==
    /\ tcNode.rvalue \notin {NullExpr, FunctionSymbolE}
    /\ HasBaseSymbol(tcNode.lvalue)
    /\ ~IsKind(lhsType, "array")
    /\ IsKind(lhsType, "pointer") =>
          \/ tcNode.op = "Assign"
          \/ tcNode.op \in {"AddAssign", "SubAssign"} /\ ~IsVoidPointer(lhsType)

\* C19, amended: such a write always gives NULL and never a checked node; the
\* increment/decrement reports "Can't assign to type", and the assignment does
\* when its earlier checks passed, and otherwise has reported the error of the
\* check that failed or has no right-hand side.
C19_ConstNeverWritten ==
    /\ (TcReturned /\ IncDecOfConst) =>
          tcRet = "NULL" /\ tcErrors = Errs(<<CantAssign>>)
    /\ (TcReturned /\ AssignsToConst) =>
          /\ tcRet = "NULL"
          /\ EarlierChecksPassed => TcReported(CantAssign)
          /\ ~EarlierChecksPassed =>
                /\ ~TcReported(CantAssign)
                /\ tcErrors # << >> \/ tcNode.rvalue = NullExpr

\* An assignment x *= y to an x of const type that passed the earlier checks
\* was refused with "Can't assign to type".
C19_Witness ==
    /\ tcRet = "NULL"
    /\ TcReported(CantAssign)
    /\ AssignsToConst
    /\ tcNode.op = "MulAssign"
    /\ EarlierChecksPassed

\* An assignment to a const array was refused for being an array, without
\* the "Can't assign to type" error.
C19_RefusedForAnotherReason ==
    /\ AssignsToConst
    /\ tcRet = "NULL"
    /\ TcReported("Illegal to assign to array type")
    /\ ~TcReported(CantAssign)

\* The struct type has a const member at some depth: a member of const type,
\* or a member of a struct type that has one.
RECURSIVE HasConstMember(_)
HasConstMember(st) ==
    \E i \in 1..StructGetElementCount(st) :
        LET t == StructGetElementType(st, i)
        IN  IsConstType(t) \/ (IsKind(t, "struct") /\ HasConstMember(t))

\* The node checked assigns to an l-value of struct type.
AssignsToStruct ==
    tcNode.kind = "assign" /\ tcNode.lvalue # NullExpr /\ IsKind(lhsType, "struct")

ConstMemberMsgs == { "Illegal to assign to type due to element",
                     "Illegal to assign to type in type due to element" }

\* Error number j names a member of const type of a struct type.
NamesConstMember(j) ==
    /\ tcErrors[j].msg \in ConstMemberMsgs
    /\ tcErrors[j].element \in 1..Len(StructElements(tcErrors[j].struct))
    /\ tcErrors[j].type = StructElements(tcErrors[j].struct)[tcErrors[j].element]
    /\ IsConstType(tcErrors[j].type)

ConstMemberReported == \E j \in 1..Len(tcErrors) : NamesConstMember(j)

\* C20, as stated: an assignment to a struct type with a const member at any
\* depth reports an error that names the const member and returns NULL, and
\* one to a struct type without any is accepted.
C20_AsStated ==
    (TcReturned /\ AssignsToStruct) =>
        IF HasConstMember(lhsType)
        THEN tcRet = "NULL" /\ ConstMemberReported
        ELSE tcRet = "this"

\* C20, amended: when the earlier checks of AssignExpr::TypeCheck passed and
\* the struct type itself is not const, the assignment to a struct type with
\* a const member at any depth reports one error, which names a const member,
\* and gives NULL, and the one to a struct type without any is accepted; when
\* they did not, NULL is returned and no member is named.
C20_ConstMemberAtAnyDepth ==
    (TcReturned /\ AssignsToStruct) =>
        IF EarlierChecksPassed /\ ~IsConstType(lhsType)
        THEN IF HasConstMember(lhsType)
             THEN tcRet = "NULL" /\ Len(tcErrors) = 1 /\ NamesConstMember(1)
             ELSE tcRet = "this" /\ tcErrors = << >>
        ELSE tcRet = "NULL" /\ ~ConstMemberReported

\* struct D { M m; N n; } with struct N { int a; K inner; } and
\* struct K { const int k; int m; }: d = d2 was refused for the member k of K.
C20_Witness ==
    /\ AssignsToStruct
    /\ lhsType = StructT("D", TRUE, FALSE)
    /\ tcRet = "NULL"
    /\ Len(tcErrors) = 1
    /\ tcErrors[1].struct = "K" /\ tcErrors[1].element = 1
    /\ tcErrors[1].msg = "Illegal to assign to type in type due to element"

\* An assignment of an int to a struct with a const member was refused
\* because the int does not convert, and no member was named.
C20_RefusedBeforeTheMembers ==
    /\ AssignsToStruct
    /\ HasConstMember(lhsType)
    /\ tcRet = "NULL"
    /\ tcErrors # << >>
    /\ ~ConstMemberReported

---------------------------------------------------------------------------
(* Claims about the type of an expression, checked under GtSpec *)

GtReturned == gtRet.type.kind \notin {"idle", "none", "NULL", "abort"}

GtBaseType == GetType(IF gtExpr.node = "index" THEN gtExpr.baseExpr ELSE gtExpr.expr)

\* C21, as the specification states it: an indexed r-value is varying when
\* the index or the base (array, vector, reference or pointer) is varying, and
\* a dereferenced pointer is varying when the pointer is.
C21_VaryingBaseOrIndex ==
    GtReturned =>
        /\ (gtExpr.node = "index" =>
                (IsVaryingType(GetType(gtExpr.index)) \/ IsVaryingType(GtBaseType)
                    => IsVaryingType(gtRet.type)))
        /\ (gtExpr.node = "deref" =>
                (IsKind(GtBaseType, "pointer") /\ IsVaryingType(GtBaseType)
                    => IsVaryingType(gtRet.type)))

\* C21: what IndexExpr::GetType gives for a varying pointer to a uniform
\* type indexed by a uniform index.
C21_VaryingPointerUniformIndex ==
    /\ GtReturned
    /\ gtExpr.node = "index"
    /\ IsKind(GtBaseType, "pointer")
    /\ IsVaryingType(GtBaseType)
    /\ IsUniformType(gtRet.type)

\* C21: the halves of the statement the code agrees with: a varying index
\* always gives a varying type, and so does dereferencing a varying pointer.
C21_VaryingIndexOrDereference ==
    GtReturned =>
        /\ (gtExpr.node = "index" /\ IsVaryingType(GetType(gtExpr.index))
                => IsVaryingType(gtRet.type))
        /\ (gtExpr.node = "index" /\ ~IsKind(GtBaseType, "pointer") /\ IsVaryingType(GtBaseType)
                => IsVaryingType(gtRet.type))
        /\ (gtExpr.node = "deref" /\ IsKind(GtBaseType, "pointer") /\ IsVaryingType(GtBaseType)
                => IsVaryingType(gtRet.type))

---------------------------------------------------------------------------
(* Claims about constant folding, checked under OptSpec *)

\* GetType() of a unary, binary or type-cast expression
ExprGetType(n) ==
    IF IsUnaryExpr(n) THEN UnaryExprGetType(n)
    ELSE IF IsBinaryExpr(n) THEN BinaryExprGetType(n)
    ELSE GetType(n)

\* Optimize() has returned a ConstExpr in place of the type-checked
\* expression optChecked
OptFolded == optPhase = "done" /\ IsConstExpr(optRet) /\ optChecked # NullExpr

\* C22 as stated: the ConstExpr that replaces a type-checked unary, binary
\* or type-cast expression has the very type GetType() gave for the
\* expression before folding.
C22_FoldedTypeEqual == OptFolded => Equal(optRet.type, ExprGetType(optChecked))

\* C22 amended: the ConstExpr has the const-qualified form of the type the
\* expression had before folding (the same type up to const, so the same
\* basic type and variability), and holds one value per lane of that type.
C22_FoldedTypeEqualIgnoringConst ==
    OptFolded =>
        /\ Equal(optRet.type, GetAsConstType(ExprGetType(optChecked)))
        /\ IsVaryingType(optRet.type) = IsVaryingType(ExprGetType(optChecked))
        /\ Len(optRet.vals) = Count(ExprGetType(optChecked))

\* A comparison of two varying constants has been folded: its type was the
\* non-const varying bool, the constant's is the const one.
C22_FoldedVaryingComparison ==
    /\ OptFolded
    /\ IsBinaryExpr(optChecked)
    /\ optChecked.op \in CompareOps
    /\ IsVaryingType(optRet.type)
    /\ ~IsConstType(ExprGetType(optChecked))

\* The basic type of a constant operand is int32 or uint32
IsInt32Const(e) == IsConstExpr(e) /\ getBasicType(e.type) \in {"int32", "uint32"}

\* The operators C23 names
WrapOps == {"Add", "Sub", "Mul", "BitAnd", "BitOr", "BitXor"} \cup CompareOps

\* The lanes of constant c, a uniform one read in every lane of n lanes
LaneOf(c, i) == IF Len(c.vals) = 1 THEN c.vals[1] ELSE c.vals[i]

\* The operation taken modulo 2^32 in the operand type
WrappedUnary(o, a) == IF o = "Negate" THEN Neg32(a) ELSE Not32(a)

WrappedBinary(basic, o, a, b) ==
    CASE o = "Add" -> Add32(a, b)
      [] o = "Sub" -> Sub32(a, b)
      [] o = "Mul" -> Mul32(a, b)
      [] o = "BitAnd" -> And32(a, b)
      [] o = "BitOr" -> Or32(a, b)
      [] o = "BitXor" -> Xor32(a, b)
      [] o = "Equal" -> a = b
      [] o = "NotEqual" -> a # b
      [] o = "Lt" -> IF basic = "int32" THEN LtS32(a, b) ELSE LtU32(a, b)
      [] o = "Gt" -> IF basic = "int32" THEN LtS32(b, a) ELSE LtU32(b, a)
      [] o = "Le" -> ~(IF basic = "int32" THEN LtS32(b, a) ELSE LtU32(b, a))
      [] o = "Ge" -> ~(IF basic = "int32" THEN LtS32(a, b) ELSE LtU32(a, b))

\* A negate or bit-not of an int32 or uint32 constant has been folded
FoldedIntUnary ==
    /\ OptFolded
    /\ IsUnaryExpr(optChecked)
    /\ optChecked.op \in {"Negate", "BitNot"}
    /\ IsInt32Const(optChecked.expr)

\* One of the binary operators of C23 on two int32 or two uint32 constants
\* has been folded
FoldedIntBinary ==
    /\ OptFolded
    /\ IsBinaryExpr(optChecked)
    /\ optChecked.op \in WrapOps
    /\ IsInt32Const(optChecked.arg0)
    /\ IsInt32Const(optChecked.arg1)

UnaryWraps ==
    \A i \in 1..Len(optRet.vals) :
        optRet.vals[i] = WrappedUnary(optChecked.op, LaneOf(optChecked.expr, i))

BinaryWraps ==
    \A i \in 1..Len(optRet.vals) :
        optRet.vals[i] = WrappedBinary(getBasicType(optChecked.arg0.type), optChecked.op,
                                       LaneOf(optChecked.arg0, i), LaneOf(optChecked.arg1, i))

\* C23 as stated: the ConstExpr that replaces a negate or bit-not of an int32
\* or uint32 constant, or the sum, difference, product, bitwise and, or, xor
\* or comparison of two, holds in every lane the result of the operation
\* taken modulo 2^32 in the operand type.
C23_FoldedValueWraps ==
    /\ FoldedIntUnary => UnaryWraps
    /\ FoldedIntBinary => BinaryWraps

\* What does hold: the value is the wrapped one for bit-not, for the binary
\* operators, and for the negation of an int32 other than INT32_MIN and of
\* the uint32 zero.
C23_DefinedFoldsWrap ==
    /\ FoldedIntBinary => BinaryWraps
    /\ (FoldedIntUnary
          /\ (optChecked.op = "Negate" =>
                \A i \in 1..Len(optChecked.expr.vals) :
                    IF getBasicType(optChecked.expr.type) = "int32"
                    THEN optChecked.expr.vals[i] # IntMin32
                    ELSE optChecked.expr.vals[i] = Zero32))
            => UnaryWraps

\* The negation of the uint32 constant 1 has been folded to 0
C23_NegatedOneIsZero ==
    /\ FoldedIntUnary
    /\ optChecked.op = "Negate"
    /\ optChecked.expr = ConstE(AtomicT("uint32", TRUE, TRUE), <<One32>>)
    /\ optRet.vals = <<Zero32>>

\* The negation of INT32_MIN has been folded to INT32_MAX
C23_NegatedMinIsMax ==
    /\ FoldedIntUnary
    /\ optChecked.op = "Negate"
    /\ optChecked.expr = ConstE(AtomicT("int32", TRUE, TRUE), <<IntMin32>>)
    /\ optRet.vals = <<IntMax32>>

\* Optimize() has returned for a type-checked logical && or || whose first
\* operand is a constant that alone determines the result (false in every
\* lane for &&, true in every lane for ||) and whose second operand is not
\* a constant
FirstOperandDecides ==
    /\ optPhase = "done"
    /\ optRet # Aborted
    /\ IsBinaryExpr(optChecked)
    /\ optChecked.op \in LogicalOps
    /\ IsConstExpr(optChecked.arg0)
    /\ getBasicType(optChecked.arg0.type) = "bool"
    /\ \A i \in 1..Len(optChecked.arg0.vals) :
          optChecked.arg0.vals[i] = (optChecked.op = "LogicalOr")
    /\ ~IsConstExpr(optChecked.arg1)

\* C24 as stated: a logical && or || whose constant first operand alone
\* determines the result is folded to a constant even when the second
\* operand is not a constant.
C24_ShortCircuitFolded == FirstOperandDecides => IsConstExpr(optRet)

\* What the code does: such an expression is returned as it is.
C24_ShortCircuitUnfolded == FirstOperandDecides => optRet = optChecked

\* false && x for a bool variable x has been returned unfolded
C24_FalseAndVariable ==
    /\ FirstOperandDecides
    /\ optChecked.op = "LogicalAnd"
    /\ optChecked.arg1.node = "symbol"
    /\ optRet = optChecked

\* Optimize() has returned for a type-checked division
DivisionOptimized == optPhase = "done" /\ IsBinaryExpr(optChecked) /\ optChecked.op = "Div"

\* Its divisor is a float constant; a float that is no constant
ConstFloatDivisor ==
    IsConstExpr(optChecked.arg1) /\ IsFloat32(GetType(optChecked.arg1))

OtherFloatDivisor ==
    ~IsConstExpr(optChecked.arg1) /\ IsFloat32(GetType(optChecked.arg1))

\* An rcp function is visible in the symbol table
RcpVisible == LookupFunctionMatches(functions, "rcp") # << >>

IsProduct(e) == IsBinaryExpr(e) /\ e.op = "Mul"

\* e is x * (1/c) for the dividend x and the divisor c of optChecked, or
\* the constant that product folds to when x is a constant as well
IsProductWithInverse(e) ==
    LET c == optChecked.arg1
        inv == [i \in 1..Len(c.vals) |-> FDiv(One, c.vals[i])]
    IN  IF IsConstExpr(optChecked.arg0)
        THEN /\ IsConstExpr(e)
             /\ \A i \in 1..Len(e.vals) :
                    e.vals[i] = FMul(LaneOf(optChecked.arg0, i), inv[i])
        ELSE /\ IsProduct(e)
             /\ e.arg0 = optChecked.arg0
             /\ IsConstExpr(e.arg1)
             /\ e.arg1.vals = inv

\* e is x * rcp(y) for the operands x and y of optChecked
IsProductWithRcp(e) ==
    /\ IsProduct(e)
    /\ e.arg0 = optChecked.arg0
    /\ "node" \in DOMAIN e.arg1
    /\ e.arg1.node = "call"
    /\ e.arg1.func.name = "rcp"
    /\ e.arg1.args = ExprList(<<optChecked.arg1>>)

RcpWarnings == {i \in 1..Len(optWarnings) : optWarnings[i] = RcpNotFound}

\* C25, without fast-math: no division is rewritten to a multiplication.
NoRewriteWithoutFastMath == (DivisionOptimized /\ ~optFastMath) => ~IsProduct(optRet)

\* C25, with fast-math and a float constant divisor: x / c becomes x * (1/c)
ConstantDivisorRewritten ==
    (DivisionOptimized /\ optFastMath /\ ConstFloatDivisor) => IsProductWithInverse(optRet)

\* C25, with fast-math, a non-constant float divisor and no rcp(): the
\* division is left unchanged, with exactly one warning
LeftAloneWithWarning ==
    (DivisionOptimized /\ optFastMath /\ OtherFloatDivisor /\ ~RcpVisible) =>
        optRet = optChecked /\ Cardinality(RcpWarnings) = 1

\* C25 as stated: with fast_math set, x / c for a float constant c becomes
\* x * (1/c), and x / y for a non-constant float y becomes x * rcp(y) when an
\* rcp function is visible in the symbol table, otherwise the division is
\* left unchanged with exactly one "rcp() not found" warning; with fast_math
\* clear no division is rewritten to a multiplication.
C25_FastMathDivision ==
    /\ ConstantDivisorRewritten
    /\ (DivisionOptimized /\ optFastMath /\ OtherFloatDivisor /\ RcpVisible) =>
            IsProductWithRcp(optRet)
    /\ LeftAloneWithWarning
    /\ NoRewriteWithoutFastMath

\* What does hold: the same, with x * rcp(y) only when the functions
\* visible as rcp are the two of the standard library.
C25_FastMathDivisionWithStdlib ==
    /\ ConstantDivisorRewritten
    /\ (DivisionOptimized /\ optFastMath /\ OtherFloatDivisor
            /\ functions[1]["rcp"] = StdlibRcp) => IsProductWithRcp(optRet)
    /\ LeftAloneWithWarning
    /\ NoRewriteWithoutFastMath

\* With one rcp() visible the compiler has stopped on the assertion
C25_OneRcpAborts ==
    /\ DivisionOptimized /\ optFastMath /\ OtherFloatDivisor
    /\ Len(LookupFunctionMatches(functions, "rcp")) = 1
    /\ optRet = Aborted

\* With two rcp() visible that take no float the division has become NULL
C25_UnusableRcpIsNull ==
    /\ DivisionOptimized /\ optFastMath /\ OtherFloatDivisor
    /\ Len(LookupFunctionMatches(functions, "rcp")) = 2
    /\ optRet = NullExpr

\* x / y has become x * rcp(y)
C25_RewrittenToRcp ==
    DivisionOptimized /\ optFastMath /\ OtherFloatDivisor /\ IsProductWithRcp(optRet)

\* BinaryExpr::Optimize has been given a binary expression that passed
\* BinaryExpr::TypeCheck and whose operands are two constants
TwoConstantsOptimized ==
    /\ optPhase = "done"
    /\ IsBinaryExpr(optChecked)
    /\ IsConstExpr(optChecked.arg0)
    /\ IsConstExpr(optChecked.arg1)

\* C29 as stated: for every binary expression that passed
\* BinaryExpr::TypeCheck and has two constant operands, the comma operator
\* included, the assertion that the operand types are equal ignoring const
\* holds in BinaryExpr::Optimize.
C29_OperandTypesAsserted ==
    TwoConstantsOptimized =>
        EqualIgnoringConst(GetType(optChecked.arg0), GetType(optChecked.arg1))

\* What does hold: the operand types are equal ignoring const for every
\* operator but the comma operator.
C29_ConvertedOperandTypesEqual ==
    (TwoConstantsOptimized /\ optChecked.op # "Comma") =>
        EqualIgnoringConst(GetType(optChecked.arg0), GetType(optChecked.arg1))

\* The assertion has failed on a comma expression of an int32 and a float
\* constant
C29_CommaAssertionFails ==
    /\ TwoConstantsOptimized
    /\ optChecked.op = "Comma"
    /\ getBasicType(optChecked.arg0.type) = "int32"
    /\ getBasicType(optChecked.arg1.type) = "float"
    /\ optRet = Aborted

\* Optimize() has been given an int32 or uint32 division or remainder of two
\* constants with a divisor lane equal to 0
ZeroDivisorOptimized ==
    /\ TwoConstantsOptimized
    /\ optChecked.op \in {"Div", "Mod"}
    /\ IsInt32Const(optChecked.arg0)
    /\ IsInt32Const(optChecked.arg1)
    /\ \E i \in 1..Len(optChecked.arg1.vals) : optChecked.arg1.vals[i] = Zero32

\* C30 as stated: for int32 or uint32 constant operands of Div or Mod with a
\* divisor lane equal to 0, BinaryExpr::Optimize does not perform the host
\* division: it returns the expression unfolded (every other return is that
\* of FOLD_OP, which divides lane by lane).
C30_ZeroDivisorNotFolded == ZeroDivisorOptimized => optRet = optChecked

\* 1 / 0 on int32 constants has stopped the compiler; has been folded
C30_DivisionByZeroTraps ==
    /\ ZeroDivisorOptimized
    /\ optChecked.op = "Div"
    /\ optChecked.arg0.vals = <<One32>>
    /\ optRet = Aborted

C30_DivisionByZeroFolded ==
    /\ ZeroDivisorOptimized
    /\ optChecked.op = "Div"
    /\ optChecked.arg0.vals = <<One32>>
    /\ IsConstExpr(optRet)

---------------------------------------------------------------------------
(* Claims about near-miss suggestions, checked under CmSpec *)

\* The names of the variables and functions, and of the types, in any live
\* scope
LiveVariableAndFunctionNames ==
    {n \in {"x", "y"} : \E i \in 1..Len(variables) : variables[i][n] # NullSym}
        \cup {n \in {"f", "xy"} : \E i \in 1..Len(functions) : functions[i][n] # << >>}

LiveTypeNames == {n \in {"T"} : \E i \in 1..Len(types) : types[i][n] # NullType}

\* The names of the enum types in any live scope, and of the other types
LiveEnumTypeNames ==
    {n \in {"T"} : \E i \in 1..Len(types) : IsKind(types[i][n], "enum")}

LiveOtherTypeNames ==
    {n \in {"T"} : \E i \in 1..Len(types) :
                        types[i][n] # NullType /\ ~IsKind(types[i][n], "enum")}

\* The names of a set at the smallest edit distance to cmStr that any of
\* them has, if that distance is <= 2; no name otherwise
Nearest(names) ==
    {n \in names :
        /\ EditDistance(cmStr, NameChars(n)) <= 2
        /\ \A m \in names : EditDistance(cmStr, NameChars(n)) <= EditDistance(cmStr, NameChars(m))}

Returned == {cmRet[i] : i \in 1..Len(cmRet)}

VariableQueryFollowsRule ==
    cmOp = "ClosestVariableOrFunctionMatch" =>
        /\ Returned = Nearest(LiveVariableAndFunctionNames)
        /\ Returned \cap LiveTypeNames = {}

\* C26 as stated: ClosestVariableOrFunctionMatch returns exactly the names of
\* variables and functions in any live scope at the smallest edit distance
\* to the query, provided that distance is <= 2, and nothing when no name is
\* within distance 2, never a type name; closestTypeMatch applies the same
\* rule over the type names.
C26_NearestNames ==
    /\ VariableQueryFollowsRule
    /\ cmOp \in {"ClosestTypeMatch", "ClosestEnumTypeMatch"} =>
            Returned = Nearest(LiveTypeNames)

\* C26 amended: closestTypeMatch applies the rule over the names of the enum
\* types only when asked for enum types (ClosestEnumTypeMatch), and over
\* the names of the types that are no enum types only otherwise
\* (ClosestTypeMatch).
C26_NearestNamesOfTheKindAsked ==
    /\ VariableQueryFollowsRule
    /\ cmOp = "ClosestTypeMatch" => Returned = Nearest(LiveOtherTypeNames)
    /\ cmOp = "ClosestEnumTypeMatch" => Returned = Nearest(LiveEnumTypeNames)

\* A query at distance 1 from a variable and a function and at distance 2
\* from another variable has returned the two; a query for the name of an
\* enum type has returned nothing from ClosestTypeMatch
C26_TiedAtDistanceOne ==
    /\ cmOp = "ClosestVariableOrFunctionMatch"
    /\ cmStr = <<"x", "T">>
    /\ Returned = {"x", "xy"}
    /\ "y" \in LiveVariableAndFunctionNames

C26_EnumNameNotSuggested ==
    /\ cmOp = "ClosestTypeMatch"
    /\ cmStr = <<"T">>
    /\ LiveTypeNames = {"T"}
    /\ cmRet = << >>

---------------------------------------------------------------------------
(* Claims about the symbol table, checked under SymSpec *)

Depth == Len(variables)

\* Scope d binds variable name n and no deeper live scope does.
InnermostBinding(vs, d, n) ==
    /\ vs[d][n] # NullSym
    /\ \A e \in (d + 1)..Len(vs) : vs[e][n] = NullSym

\* What a lookup of n gives once the innermost scope is gone.
PopPart ==
    op' = "PopScope" =>
        \A n \in VarNames :
            LookupVariable(n)' =
                LookupVariableIn(SubSeq(variables, 1, Len(variables) - 1), n)

\* C1 as stated: a symbol bound at depth d is what LookupVariable returns at
\* every depth >= d, and after the pop of a scope the lookup gives the binding
\* of an enclosing scope or NULL.
C1_AsStated ==
    /\ [](\A d \in 1..Depth : \A n \in VarNames :
            variables[d][n] # NullSym => LookupVariable(n) = variables[d][n])
    /\ [][PopPart]_vars

\* C1 amended: LookupVariable returns the symbol bound at depth d at every
\* depth >= d as long as no deeper live scope binds the same name (a deeper
\* binding shadows it), it returns NULL when no live scope binds the name, and
\* after the pop of a scope it returns the binding of the innermost enclosing
\* scope that binds the name, or NULL.
C1_ScopeIsolation ==
    /\ [](\A n \in VarNames :
            /\ \A d \in 1..Depth :
                  InnermostBinding(variables, d, n) => LookupVariable(n) = variables[d][n]
            /\ (\A d \in 1..Depth : variables[d][n] = NullSym)
                  => LookupVariable(n) = NullSym)
    /\ [][PopPart]_vars

\* A scope was popped and the lookup of x gives the binding of the global scope.
C1_Witness ==
    /\ op = "PopScope"
    /\ variables[1]["x"] # NullSym
    /\ LookupVariable("x") = variables[1]["x"]

\* C2: AddVariable of a name bound in the innermost scope is an error, returns
\* false and changes no map; of a name bound only in an outer scope it is a
\* warning, returns true and binds the name in the innermost scope alone.
C2_AddVariable ==
    [][op' = "AddVariable" =>
        LET n == arg'.name
            top == Len(variables)
        IN  /\ variables[top][n] # NullSym =>
                /\ ret' = FALSE
                /\ nErrors' = 1
                /\ nWarnings' = 0
                /\ variables' = variables
            /\ (variables[top][n] = NullSym /\ \E d \in 1..(top - 1) : variables[d][n] # NullSym) =>
                /\ ret' = TRUE
                /\ nErrors' = 0
                /\ nWarnings' = 1
                /\ variables'[top][n] = arg'
                /\ \A d \in 1..(top - 1) : variables'[d] = variables[d]
                /\ \A m \in VarNames \ {n} : variables'[top][m] = variables[top][m]
                /\ Len(variables') = top
    ]_vars

\* A redeclaration was just refused in a scope whose binding shadows an outer one.
C2_Witness ==
    /\ op = "AddVariable"
    /\ ret = FALSE
    /\ nErrors = 1
    /\ Depth = 2
    /\ variables[1][arg.name] # NullSym
    /\ variables[2][arg.name] # NullSym
    /\ variables[2][arg.name] # variables[1][arg.name]

\* Some live scope holds a function symbol named n whose type is Equal to t.
LiveEqual(fns, n, t) ==
    \E d \in 1..Len(fns) : \E j \in 1..Len(fns[d][n]) : Equal(fns[d][n][j].type, t)

\* C3: AddFunction of a symbol whose name and Equal type some live scope
\* already holds returns false, reports no error and changes no overload set.
C3_OverloadIdempotence ==
    [][(op' = "AddFunction" /\ LiveEqual(functions, arg'.name, arg'.type)) =>
        /\ ret' = FALSE
        /\ nErrors' = 0
        /\ functions' = functions
    ]_vars

\* The second add was made one scope below the first and was refused.
C3_Witness ==
    /\ op = "AddFunction"
    /\ ret = FALSE
    /\ Depth = 2
    /\ functions[2][arg.name] = << >>
    /\ \E j \in 1..Len(functions[1][arg.name]) :
          Equal(functions[1][arg.name][j].type, arg.type)

\* C4: the symbols LookupFunction(name, matches) returns have pairwise
\* distinct signatures.
C4_DistinctSignatures ==
    \A n \in FuncNames :
        LET ms == LookupFunctionMatches(functions, n)
        IN  \A i, j \in 1..Len(ms) : i # j => ~Equal(ms[i].type, ms[j].type)

\* Two overloads are visible from two scopes and a third add was refused.
C4_Witness ==
    /\ op = "AddFunction"
    /\ ret = FALSE
    /\ Len(functions[1]["f"]) = 1
    /\ Depth = 2
    /\ Len(functions[2]["f"]) = 1

\* The bindings of the global scope are kept by a step and still found.
GlobalKept ==
    /\ \A n \in VarNames : variables[1][n] # NullSym =>
          /\ variables'[1][n] = variables[1][n]
          /\ LookupVariable(n)' # NullSym
          /\ (\A d \in 2..Len(variables') : variables'[d][n] = NullSym)
                => LookupVariable(n)' = variables[1][n]
    /\ \A n \in FuncNames : \A j \in 1..Len(functions[1][n]) :
          /\ functions'[1][n][j] = functions[1][n][j]
          /\ \E k \in 1..Len(LookupFunctionMatches(functions', n)) :
                LookupFunctionMatches(functions', n)[k] = functions[1][n][j]
    /\ \A n \in TypeNames : types[1][n] # NullType =>
          /\ types'[1][n] = types[1][n]
          /\ LookupTypeIn(types', n) # NullType

\* C5: the three stacks have one depth, at least 1, and the global scope of
\* the constructor stays: its bindings are never removed or replaced, a lookup
\* of a name it binds never fails, and gives its binding unless a deeper scope
\* shadows it.
C5_GlobalFrame ==
    /\ [](Len(variables) = Len(functions) /\ Len(functions) = Len(types) /\ Len(types) >= 1)
    /\ [][GlobalKept]_vars

\* An inner scope was pushed and popped again over a global scope that binds
\* a variable, a function and a type.
C5_Witness ==
    /\ op = "PopScope"
    /\ Depth = 1
    /\ variables[1]["y"] # NullSym
    /\ Len(functions[1]["f"]) = 2
    /\ types[1]["T"] # NullType

===========================================================================
